---- MODULE Spec2Model ----
(***************************************************************************)
(* A model of sqlalchemy-filters-plus: typed fields, the operator algebra, *)
(* the filter metaclass (FilterType) and the filter instance (validation   *)
(* and predicate folding).                                                 *)
(*                                                                         *)
(* Every Python value, SQL expression and exception is a term              *)
(*     [t |-> tag, s |-> text, a |-> sequence of terms]                    *)
(* so that any two values can be compared.  A dict is a term "dict" whose  *)
(* entries are "kv" terms (key in s, value in a[1]) in insertion order.    *)
(***************************************************************************)
EXTENDS Integers, Sequences, FiniteSets, TLC

VARIABLES
    is14,      \* utils.SQLALCHEMY_VERSION.startswith("1.4")
    classes,   \* the filter classes defined so far, in definition order
    defOut,    \* outcome of the last class statement
    inst,      \* the live filter instance
    out,       \* outcome of the last call on the instance
    fld,       \* a field descriptor under test
    raw,       \* the raw input value given to the field
    fdata,     \* the validated data the field is applied to
    fres,      \* outcome of the last call on the field
    rows,      \* the number of rows the wrapped query yields
    pag,       \* the live Paginator
    pres,      \* outcome of the last call on the Paginator
    ids        \* the descriptor objects held by the maps of each class in classes

vars == <<is14, classes, defOut, inst, out, fld, raw, fdata, fres, rows, pag, pres, ids>>

----------------------------------------------------------------------------
(* Terms *)

Term(t, s, a) == [t |-> t, s |-> s, a |-> a]
Atom(t, s) == Term(t, s, <<>>)

NoneV == Atom("NoneType", "None")
Empty == Atom("Empty", "")
Str(s) == Atom("str", s)
PyList(items) == Term("list", "", items)
KV(k, v) == Term("kv", k, <<v>>)
Dict(entries) == Term("dict", "", entries)
EmptyDict == Dict(<<>>)

Ok(v) == [ok |-> TRUE, v |-> v]
Raise(kind, args) == [ok |-> FALSE, v |-> Term("exc", kind, args)]
NoOutcome == Ok(Atom("nothing", ""))

\* dict.get(key, default)
DictGet(d, key, default) ==
    IF \E i \in 1..Len(d.a) : d.a[i].s = key
    THEN d.a[CHOOSE i \in 1..Len(d.a) : d.a[i].s = key].a[1]
    ELSE default

DictKeys(d) == {d.a[i].s : i \in 1..Len(d.a)}

\* d[key] = v : an existing key keeps its position, a new key goes last
DictSet(d, key, v) ==
    IF key \in DictKeys(d)
    THEN Dict([i \in 1..Len(d.a) |-> IF d.a[i].s = key THEN KV(key, v) ELSE d.a[i]])
    ELSE Dict(Append(d.a, KV(key, v)))

RECURSIVE DictUpdateFrom(_, _, _)
DictUpdateFrom(d, other, i) ==
    IF i > Len(other.a) THEN d
    ELSE DictUpdateFrom(DictSet(d, other.a[i].s, other.a[i].a[1]), other, i + 1)

\* d.update(other), also {**d, **other}
DictUpdate(d, other) == DictUpdateFrom(d, other, 1)

\* bool(value)
Truthy(v) ==
    CASE v.t = "NoneType" -> FALSE
      [] v.t \in {"dict", "list", "tuple"} -> v.a # <<>>
      [] v.t = "str" -> v.s # ""
      [] v.t = "bool" -> v.s = "True"
      [] v.t = "int" -> v.s # "0"
      [] v.t = "float" -> v.s # "0.0"
      [] OTHER -> TRUE

----------------------------------------------------------------------------
(* SQL expressions *)

\* utils.empty_sql(): text("")
empty_sql == Atom("text", "")
\* sqlalchemy.column(name)
column(name) == Atom("col", name)
\* an attribute of a mapped model, Model.name
Column(model, name) == Term("col", name, <<Atom("model", model)>>)
IsTextClause(e) == e.t = "text"
\* ClauseElement.self_group(): the expression as one atomic operand; a TextClause
\* is its own group
self_group(e) == IF IsTextClause(e) THEN e ELSE Term("group", "", <<e>>)
\* utils.is_none
is_none(v) == v.t = "NoneType"

----------------------------------------------------------------------------
(* Operator algebra (operators.py) *)

AndOperator == "AndOperator"
OrOperator == "OrOperator"
EqualsOperator == "EqualsOperator"
GTOperator == "GTOperator"
ContainsOperator == "ContainsOperator"
INOperator == "INOperator"
RangeOperator == "RangeOperator"
IContainsOperator == "IContainsOperator"

\* @register_operator(sql_operator=...)
sql_operator(cls) ==
    CASE cls \in {"IsOperator", "IsEmptyOperator"} -> "is_"
      [] cls \in {"IsNotOperator", "IsNotEmptyOperator"} -> "isnot"
      [] cls = "INOperator" -> "in_op"
      [] cls = "EqualsOperator" -> "eq"
      [] cls = "RangeOperator" -> "between_op"
      [] cls = "LTEOperator" -> "le"
      [] cls = "LTOperator" -> "lt"
      [] cls = "GTEOperator" -> "ge"
      [] cls = "GTOperator" -> "gt"
      [] cls = "AndOperator" -> "and_"
      [] cls = "OrOperator" -> "or_"
      [] cls \in {"ContainsOperator", "IContainsOperator"} -> "contains_op"
      [] cls \in {"StartsWithOperator", "IStartsWithOperator"} -> "startswith_op"
      [] cls \in {"EndsWithOperator", "IEndsWithOperator"} -> "endswith_op"

\* Calling the sqlalchemy operator function with positional arguments: a wrong
\* number of arguments is a TypeError, and so is text & expression under 1.4.
SqlCall(op, args) ==
    LET n == Len(args)
        arityOk ==
            CASE op = "between_op" -> n \in {3, 4}
              [] op \in {"contains_op", "startswith_op", "endswith_op"} -> n \in {2, 3, 4}
              [] OTHER -> n = 2
    IN  IF ~arityOk THEN Raise("TypeError", <<>>)
        ELSE IF op \in {"and_", "or_"} /\ is14 /\ IsTextClause(args[1])
                 /\ ~IsTextClause(args[2])
        THEN Raise("TypeError", <<>>)
        ELSE Ok(Term("op", op, args))

\* BaseOperator.check_params / RangeOperator.check_params
check_params(cls, params) ==
    IF params.t # "list"
    THEN Raise("InvalidParamError", <<Str("expected to be a list")>>)
    ELSE IF cls = "RangeOperator" /\ Len(params.a) # 2
    THEN Raise("InvalidParamError", <<Str("should have exactly 2 values")>>)
    ELSE Ok(NoneV)

\* BaseOperator.__init__: the operator object, or the error of check_params
OperatorInit(cls, sql_expression, params) ==
    LET ps == IF Truthy(params) THEN params ELSE PyList(<<>>)
        chk == check_params(cls, ps)
    IN  IF chk.ok THEN Ok(Term("operator", cls, <<sql_expression, ps>>)) ELSE chk

\* BaseOperator.get_sql_expression
get_sql_expression(operator) ==
    IF operator.a[1].t = "str" THEN column(operator.a[1].s) ELSE operator.a[1]

FuncLower(args) == Term("func", "lower", args)

\* to_sql as each operator class defines it (before the 1.4 decorator)
plain_to_sql(operator) ==
    LET cls == operator.s
        e == get_sql_expression(operator)
        params == operator.a[2].a
    IN  CASE cls = "INOperator" -> SqlCall(sql_operator(cls), <<e, PyList(params)>>)
          [] cls \in {"IContainsOperator", "IStartsWithOperator", "IEndsWithOperator"} ->
                SqlCall(sql_operator(cls), <<FuncLower(<<e>>), FuncLower(params)>>)
          [] OTHER -> SqlCall(sql_operator(cls), <<e>> \o params)

\* the wrapper short-circuiting placeholders but leaving the operands in place
sa_1_4_wrapper_unswapped(operator) ==
    LET sql_exp == get_sql_expression(operator)
        params == operator.a[2].a
    IN  IF IsTextClause(sql_exp) /\ sql_exp = empty_sql
           /\ \A i \in 1..Len(params) : IsTextClause(params[i]) /\ params[i] = empty_sql
        THEN Ok(empty_sql)
        ELSE plain_to_sql(operator)

\* the wrapper of sa_1_4_compatible
sa_1_4_wrapper(operator) ==
    LET sql_exp == get_sql_expression(operator)
        params == operator.a[2].a
    IN  IF IsTextClause(sql_exp) /\ sql_exp = empty_sql
           /\ \A i \in 1..Len(params) : IsTextClause(params[i]) /\ params[i] = empty_sql
        THEN Ok(empty_sql)
        ELSE IF IsTextClause(sql_exp)
        THEN SqlCall(sql_operator(operator.s), params \o <<sql_exp>>)
        ELSE plain_to_sql(operator)

\* cls.to_sql after __init_subclass__ has applied sa_1_4_compatible; BaseOperator
\* itself is not wrapped and has no `operator` attribute
to_sql(operator) ==
    IF operator.s = "BaseOperator" THEN Raise("AttributeError", <<Str("operator")>>)
    ELSE IF is14 THEN sa_1_4_wrapper(operator) ELSE plain_to_sql(operator)

\* cls(sql_expression, params).to_sql()
OperatorSql(cls, sql_expression, params) ==
    LET o == OperatorInit(cls, sql_expression, params)
    IN  IF o.ok THEN to_sql(o.v) ELSE o

----------------------------------------------------------------------------
(* The Python builtins the typed fields call, on the literals of the model *)

IntV(s) == Atom("int", s)
FloatV(s) == Atom("float", s)
BoolV(b) == Atom("bool", IF b THEN "True" ELSE "False")
UTC == Atom("tz", "UTC")
\* a datetime is naive (a = <<>>) or carries its tzinfo in a[1]
DateTime(s, tz) == Term("datetime", s, tz)
Date(s) == Atom("date", s)

IntLiterals == {"-1", "0", "1", "2", "12", "20", "1579734000"}
FloatLiterals == IntLiterals \cup {"1.0", "1.", "1.1", "1e20", "1579734000.0"}

\* float(x) of a literal, and int(x) of a float
FloatOfLiteral(s) ==
    CASE s \in {"1", "1.0", "1."} -> "1.0"
      [] s = "0" -> "0.0"
      [] s = "-1" -> "-1.0"
      [] s = "2" -> "2.0"
      [] s = "12" -> "12.0"
      [] s = "20" -> "20.0"
      [] s \in {"1579734000", "1579734000.0"} -> "1579734000.0"
      [] OTHER -> s
IntOfFloat(s) ==
    CASE s \in {"1.0", "1.1"} -> "1"
      [] s = "0.0" -> "0"
      [] s = "12.0" -> "12"
      [] s = "20.0" -> "20"
      [] s = "1579734000.0" -> "1579734000"
      [] s = "1e20" -> "100000000000000000000"

\* int(value)
PyInt(v) ==
    CASE v.t = "int" -> Ok(v)
      [] v.t = "bool" -> Ok(IntV(IF v.s = "True" THEN "1" ELSE "0"))
      [] v.t = "float" -> Ok(IntV(IntOfFloat(v.s)))
      [] v.t = "str" -> IF v.s \in IntLiterals THEN Ok(IntV(v.s))
                        ELSE Raise("ValueError", <<>>)
      [] OTHER -> Raise("TypeError", <<>>)

\* float(value)
PyFloat(v) ==
    CASE v.t = "float" -> Ok(v)
      [] v.t = "int" -> Ok(FloatV(FloatOfLiteral(v.s)))
      [] v.t = "bool" -> Ok(FloatV(IF v.s = "True" THEN "1.0" ELSE "0.0"))
      [] v.t = "str" -> IF v.s \in FloatLiterals THEN Ok(FloatV(FloatOfLiteral(v.s)))
                        ELSE Raise("ValueError", <<>>)
      [] OTHER -> Raise("TypeError", <<>>)

\* Decimal(value)
PyDecimal(v) ==
    CASE v.t = "int" -> Ok(Atom("Decimal", v.s))
      [] v.t = "bool" -> Ok(Atom("Decimal", IF v.s = "True" THEN "1" ELSE "0"))
      [] v.t = "float" -> Ok(Atom("Decimal", IF v.s = "1.1"
                               THEN "1.100000000000000088817841970012523233890533447265625"
                               ELSE v.s))
      [] v.t = "str" -> IF v.s \in FloatLiterals THEN Ok(Atom("Decimal", v.s))
                        ELSE Raise("InvalidOperation", <<>>)
      [] v.t = "list" -> Raise("ValueError", <<>>)
      [] OTHER -> Raise("TypeError", <<>>)

\* str(value)
PyStrText(v) ==
    CASE v.t = "list" -> IF v.a = <<>> THEN "[]" ELSE "[...]"
      [] v.t = "dict" -> IF v.a = <<>> THEN "{}" ELSE "{...}"
      [] v.t = "datetime" -> IF v.a = <<>> THEN v.s ELSE "<aware datetime>"
      [] OTHER -> v.s
PyStr(v) == Ok(Str(PyStrText(v)))

\* bool(value)
PyBool(v) == Ok(BoolV(Truthy(v)))

\* datetime.fromtimestamp(value, tz): out of the platform's range it raises
\* OverflowError (also ValueError or OSError, by platform)
fromtimestamp(v, tz) ==
    CASE v.s \in {"0.0", "1.0"} -> Ok(DateTime("1970-01-01 00:00:01", <<tz>>))
      [] v.s = "1.1" -> Ok(DateTime("1970-01-01 00:00:01.100000", <<tz>>))
      [] v.s \in {"12.0", "20.0"} -> Ok(DateTime("1970-01-01 00:00:20", <<tz>>))
      [] v.s = "1579734000.0" -> Ok(DateTime("2020-01-22 23:00:00", <<tz>>))
      [] OTHER -> Raise("OverflowError", <<>>)

\* datetime.strptime(text, "%Y-%m-%d")
strptime(text) ==
    IF text = "2020-01-23" THEN Ok(DateTime("2020-01-23 00:00:00", <<>>))
    ELSE IF text = "2020-12-02" THEN Ok(DateTime("2020-12-02 00:00:00", <<>>))
    ELSE Raise("ValueError", <<Str("time data does not match format")>>)

\* datetime.date()
DatePart(dt) ==
    CASE dt.s \in {"1970-01-01 00:00:01", "1970-01-01 00:00:01.100000",
                   "1970-01-01 00:00:20"} -> Date("1970-01-01")
      [] dt.s = "2020-01-22 23:00:00" -> Date("2020-01-22")
      [] dt.s = "2020-12-02 00:00:00" -> Date("2020-12-02")
      [] dt.s = "2020-01-23 00:00:00" -> Date("2020-01-23")
      [] OTHER -> Date(dt.s)

\* datetime.combine(value, time())
CombineMidnight(d) == DateTime(IF d.s = "2020-12-02" THEN "2020-12-02 00:00:00" ELSE d.s, <<>>)

\* utils.to_timezone: a naive datetime result gets the field's timezone
to_timezone(res, tz) ==
    IF res.ok /\ res.v.t = "datetime" /\ res.v.a = <<>>
    THEN Ok(DateTime(res.v.s, <<tz>>))
    ELSE res

----------------------------------------------------------------------------
(* The mapped models of the test suite (tests/models.py) *)

ModelNames == {"User", "Article"}

\* the SQL type of a column attribute, "relationship" for a relationship
AttrType(model, name) ==
    CASE model = "User" /\ name \in {"first_name", "email"} -> "String"
      [] model = "User" /\ name \in {"id", "age"} -> "Integer"
      [] model = "User" /\ name = "last_login_time" -> "Time"
      [] model = "User" /\ name = "articles" -> "relationship"
      [] model = "Article" /\ name = "title" -> "String"
      [] model = "Article" /\ name \in {"id", "user_id"} -> "Integer"
      [] model = "Article" /\ name = "user" -> "relationship"
      [] OTHER -> "missing"

\* hasattr(model, name)
hasattr_model(model, name) == AttrType(model, name) # "missing"

\* relationship.property.argument
RelationTarget(model, name) ==
    IF model = "User" /\ name = "articles" THEN "Article" ELSE "User"

----------------------------------------------------------------------------
(* Fields (fields.py, mixins.ForeignKeyFieldMixin) *)

TypedFieldClasses == {"IntegerField", "DecimalField", "FloatField", "StringField",
                      "BooleanField", "TimestampField", "DateField", "DateTimeField"}
DateFieldClasses == {"DateField", "DateTimeField"}

\* BaseField.__init__ with ForeignKeyFieldMixin.__init__, TimestampField.__init__ and
\* BaseDateField.__init__; field_name is the dotted name split on "." (<<>> for None)
NewField(cls, field_name, lookup_operator, custom_column, data_source_name, allow_none, is_timestamp) ==
    [cls |-> cls,
     public_name |-> "",
     field_name |-> field_name,
     data_source_name |-> data_source_name,
     lookup_operator |-> lookup_operator,
     join |-> NoneV,
     column |-> custom_column,
     allow_none |-> allow_none,
     parent_filter |-> "",
     is_foreign_key |-> Len(field_name) = 2,
     foreign_model |-> "",
     is_timestamp |-> IF cls = "TimestampField" THEN TRUE
                      ELSE IF cls \in DateFieldClasses THEN is_timestamp ELSE FALSE,
     timezone |-> UTC,
     method |-> NoneV]

\* MethodField.__init__
NewMethodField(method, data_source_name) ==
    [NewField("MethodField", <<>>, EqualsOperator, NoneV, data_source_name, FALSE, FALSE)
        EXCEPT !.method = method]

\* BaseField.__set_name__
set_name(f, owner, name) == [f EXCEPT !.public_name = name, !.parent_filter = owner]

\* BaseField.get_data_source_name
get_data_source_name(f) ==
    IF f.data_source_name # "" THEN f.data_source_name ELSE f.public_name

\* BaseField.get_field_value
get_field_value(f, data) == DictGet(data, get_data_source_name(f), Empty)

\* TypedField.type_
type_(cls) ==
    CASE cls = "IntegerField" -> "int"
      [] cls = "DecimalField" -> "Decimal"
      [] cls = "StringField" -> "str"
      [] cls = "BooleanField" -> "bool"
      [] OTHER -> "float"

FieldValidationError(message) == Raise("FieldValidationError", <<NoneV, Str(message)>>)

\* FieldValidationError.set_field_name
set_field_name(exc, name) == Term(exc.t, exc.s, <<Str(name), exc.a[2]>>)

ExpectedMessage(t) ==
    CASE t = "int" -> "Expected to be of type int"
      [] t = "Decimal" -> "Expected to be of type Decimal"
      [] t = "str" -> "Expected to be of type str"
      [] t = "bool" -> "Expected to be of type bool"
      [] OTHER -> "Expected to be of type float"

\* TypedField.validate: every Exception of the coercion becomes FieldValidationError
TypedField_validate(f, value) ==
    LET t == type_(f.cls)
        r == CASE t = "int" -> PyInt(value)
               [] t = "Decimal" -> PyDecimal(value)
               [] t = "str" -> PyStr(value)
               [] t = "bool" -> PyBool(value)
               [] OTHER -> PyFloat(value)
    IN  IF r.ok THEN r ELSE FieldValidationError(ExpectedMessage(t))

\* TimestampField.validate
TimestampField_validate(f, value) ==
    LET v == TypedField_validate(f, value)
    IN  to_timezone(IF v.ok THEN fromtimestamp(v.v, f.timezone) ELSE v, f.timezone)

\* BaseDateField.validate: only the ValueError of strptime is wrapped
BaseDateField_validate(f, value) ==
    LET r == strptime(PyStrText(value))
    IN  to_timezone(
            IF f.is_timestamp THEN TimestampField_validate(f, value)
            ELSE IF r.ok \/ r.v.s # "ValueError" THEN r
            ELSE FieldValidationError(r.v.a[1].s),
            f.timezone)

\* DateTimeField.validate
DateTimeField_validate(f, value) ==
    to_timezone(
        IF value.t = "datetime" THEN Ok(value)
        ELSE IF value.t = "date" THEN Ok(CombineMidnight(value))
        ELSE BaseDateField_validate(f, value),
        f.timezone)

\* DateField.validate
DateField_validate(f, value) ==
    LET r == BaseDateField_validate(f, value)
    IN  IF r.ok THEN Ok(DatePart(r.v)) ELSE r

\* field.validate(value), by the field's class; BaseField.validate is the identity
validate(f, value) ==
    CASE f.cls = "TimestampField" -> TimestampField_validate(f, value)
      [] f.cls = "DateTimeField" -> DateTimeField_validate(f, value)
      [] f.cls = "DateField" -> DateField_validate(f, value)
      [] f.cls \in TypedFieldClasses -> TypedField_validate(f, value)
      [] OTHER -> Ok(value)

----------------------------------------------------------------------------
(* Nested filters and the class registry (filters.py) *)

\* NestedFilter.__init__
NewNested(filter_class, operator, outer_operator, flat, data_source_name, schema) ==
    [public_name |-> "",
     filter_class |-> filter_class,
     operator |-> operator,
     outer_operator |-> outer_operator,
     flat |-> flat,
     data_source_name |-> data_source_name,
     marshmallow_schema |-> schema]

\* NestedFilter.__set_name__
nested_set_name(n, name) == [n EXCEPT !.public_name = name]

\* NestedFilter.get_data_source_name
nested_data_source_name(n) ==
    IF n.data_source_name # "" THEN n.data_source_name ELSE n.public_name

\* A Meta class: absent, or with its attributes
NoMeta == [defined |-> FALSE, hasModel |-> FALSE, model |-> "", fields |-> <<>>,
           marshmallow_schema |-> NoneV, order_by |-> NoneV, page_size |-> NoneV]
MetaOf(model, fields, schema) ==
    [defined |-> TRUE, hasModel |-> TRUE, model |-> model, fields |-> fields,
     marshmallow_schema |-> schema, order_by |-> NoneV, page_size |-> NoneV]
\* the Meta with `order_by = ...` and `page_size = ...` as well
MetaWith(meta, order_by, page_size) ==
    [meta EXCEPT !.order_by = order_by, !.page_size = page_size]
MetaWithoutModel == [NoMeta EXCEPT !.defined = TRUE]

\* the class named name; classes are kept in definition order
ClassOf(cs, name) == cs[CHOOSE i \in 1..Len(cs) : cs[i].name = name]
ClassNamesOf(cs) == {cs[i].name : i \in 1..Len(cs)}

\* the keys of a map of descriptors, and the descriptor under a key
MapKeys(m) == {m[i].public_name : i \in 1..Len(m)}
MapGet(m, key) == m[CHOOSE i \in 1..Len(m) : m[i].public_name = key]

RECURSIVE MapMergeFrom(_, _, _)
MapMergeFrom(m, own, i) ==
    IF i > Len(own) THEN m
    ELSE MapMergeFrom(
            IF own[i].public_name \in MapKeys(m)
            THEN [j \in 1..Len(m) |->
                    IF m[j].public_name = own[i].public_name THEN own[i] ELSE m[j]]
            ELSE Append(m, own[i]),
            own, i + 1)

\* the merge the other way round, {**own, **base}: the base's descriptor wins
MapMerge_base_wins(base, own) ==
    MapMergeFrom(base, SelectSeq(own, LAMBDA e : e.public_name \notin MapKeys(base)), 1)

\* {**base, **own}: a redeclared key keeps its place and takes the new descriptor
MapMerge(base, own) == MapMergeFrom(base, own, 1)

\* filters.check_has_field
check_has_field(model, field_name) ==
    IF hasattr_model(model, field_name) THEN Ok(NoneV)
    ELSE Raise("AttributeError", <<Str("model has not attribute"), Str(field_name)>>)

\* FilterType.check_model_presence
check_model_presence(body) ==
    IF ~body.abstract /\ ~body.Meta.defined
    THEN Raise("AttributeError", <<Str("does not define a Meta class")>>)
    ELSE IF ~body.abstract /\ ~body.Meta.hasModel
    THEN Raise("AttributeError", <<Str("does not have a model")>>)
    ELSE Ok(NoneV)

\* cls.Meta.model as an expression: AttributeError when Meta or model is missing
MetaModel(meta) ==
    IF meta.defined /\ meta.hasModel THEN Ok(Str(meta.model))
    ELSE Raise("AttributeError", <<Str("Meta.model")>>)

\* FilterType.check_model_compatibility over one base and the declared nested
RECURSIVE check_nested_models(_, _, _, _)
check_nested_models(cs, model, nested, i) ==
    IF i > Len(nested) THEN Ok(NoneV)
    ELSE LET m == MetaModel(ClassOf(cs, nested[i].filter_class).Meta)
         IN  IF ~m.ok THEN m
             ELSE IF m.v.s # model
             THEN Raise("FilterNotCompatible", <<Str(nested[i].filter_class)>>)
             ELSE check_nested_models(cs, model, nested, i + 1)

check_model_compatibility(cs, model, base, nested) ==
    LET meta == IF base = "" THEN NoMeta ELSE ClassOf(cs, base).Meta
        bm == MetaModel(meta)
    IN  IF meta.defined /\ ~bm.ok THEN bm
        ELSE IF meta.defined /\ bm.v.s # model
        THEN Raise("FilterNotCompatible", <<Str(base)>>)
        ELSE check_nested_models(cs, model, nested, 1)

\* the attribute name a field is checked and bound under: field_name or the key
AttrNameOf(f) == IF f.field_name # <<>> THEN f.field_name[1] ELSE f.public_name

\* FilterType.check_field_name over the fields declared in the class body
RECURSIVE check_field_name(_, _, _)
check_field_name(model, fields, i) ==
    IF i > Len(fields) THEN Ok(NoneV)
    ELSE IF fields[i].is_foreign_key THEN check_field_name(model, fields, i + 1)
    ELSE LET r == check_has_field(model, AttrNameOf(fields[i]))
         IN  IF r.ok THEN check_field_name(model, fields, i + 1) ELSE r

\* filters.FILTERS_MAPPING
FILTERS_MAPPING(sqltype) ==
    CASE sqltype = "String" -> "StringField"
      [] sqltype = "Integer" -> "IntegerField"
      [] sqltype = "Float" -> "FloatField"
      [] sqltype = "DECIMAL" -> "DecimalField"
      [] sqltype = "Date" -> "DateField"
      [] sqltype = "DateTime" -> "DateTimeField"
      [] sqltype = "Boolean" -> "BooleanField"
      [] OTHER -> ""

\* BaseFilter.create_missing_fields: a default field for every allow-listed name
\* that is a key of none of the three maps
RECURSIVE create_missing_fields(_, _, _)
create_missing_fields(c, declared_fields, i) ==
    IF i > Len(declared_fields) THEN Ok(c)
    ELSE LET name == declared_fields[i]
             known == MapKeys(c.fields) \cup MapKeys(c.nested) \cup MapKeys(c.method_fields)
             m == MetaModel(c.Meta)
             has == check_has_field(m.v.s, name)
             fcls == FILTERS_MAPPING(AttrType(m.v.s, name))
             obj == set_name(NewField(fcls, <<name>>, EqualsOperator, NoneV, "", FALSE, FALSE),
                             c.name, name)
         IN  IF name \in known THEN create_missing_fields(c, declared_fields, i + 1)
             ELSE IF ~m.ok THEN m
             ELSE IF ~has.ok THEN has
             ELSE IF fcls = "" THEN Raise("AttributeError", <<Str("could not map type"), Str(name)>>)
             ELSE create_missing_fields([c EXCEPT !.fields = Append(@, obj)],
                                        declared_fields, i + 1)

\* ForeignKeyFieldMixin.resolve_fk, against the model of the field's current owner
resolve_fk(f, ownerMeta) ==
    LET m == MetaModel(ownerMeta)
        attribute_name == f.field_name[1]
        column_name == f.field_name[2]
        foreign_model == RelationTarget(m.v.s, attribute_name)
    IN  IF ~m.ok THEN m
        ELSE IF AttrType(m.v.s, attribute_name) # "relationship"
        THEN Raise("AttributeError", <<Str(attribute_name)>>)
        ELSE IF ~hasattr_model(foreign_model, column_name)
        THEN Raise("AttributeError", <<Str(column_name)>>)
        ELSE Ok([f EXCEPT !.foreign_model = foreign_model,
                          !.column = Column(foreign_model, column_name),
                          !.join = IF Truthy(f.join) THEN f.join
                                   ELSE Column(m.v.s, attribute_name)])

\* BaseField._set_column
set_column(f, model) ==
    IF is_none(f.column)
    THEN IF hasattr_model(model, AttrNameOf(f))
         THEN Ok([f EXCEPT !.column = Column(model, AttrNameOf(f))])
         ELSE Raise("AttributeError", <<Str(AttrNameOf(f))>>)
    ELSE IF f.column.t = "str" THEN Ok([f EXCEPT !.column = column(f.column.s)])
    ELSE Ok(f)

\* getattr(filter, name, None) for the members of the class body
MemberOf(c, name) == DictGet(c.members, name, NoneV)

\* MethodField.extract_method
extract_method(f, c) ==
    LET method == IF f.method.t = "function" THEN f.method
                  ELSE MemberOf(c, IF f.method.t = "str" THEN f.method.s ELSE "")
    IN  IF ~Truthy(method) THEN Raise("AttributeError", <<Str("has not method")>>)
        ELSE IF method.t \notin {"function", "method"}
        THEN Raise("FieldMethodNotFound", <<Str(f.public_name)>>)
        ELSE Ok(method)

\* field.post_init(_class): ForeignKeyFieldMixin.post_init, BaseField.post_init
\* and MethodField.post_init; cs holds the old owner, c is the new class
post_init(f, cs, c) ==
    IF f.cls = "MethodField"
    THEN LET g == [f EXCEPT !.parent_filter = c.name]
             m == extract_method(g, c)
         IN  IF m.ok THEN Ok(g) ELSE m
    ELSE LET ownerMeta == IF f.parent_filter = c.name THEN c.Meta
                          ELSE ClassOf(cs, f.parent_filter).Meta
             r == IF f.is_foreign_key THEN resolve_fk(f, ownerMeta) ELSE Ok(f)
         IN  IF ~r.ok THEN r
             ELSE set_column([r.v EXCEPT !.parent_filter = c.name], c.Meta.model)

RECURSIVE post_init_all(_, _, _, _)
post_init_all(m, cs, c, i) ==
    IF i > Len(m) THEN Ok(m)
    ELSE LET r == post_init(m[i], cs, c)
         IN  IF ~r.ok THEN r
             ELSE post_init_all([m EXCEPT ![i] = r.v], cs, c, i + 1)

\* the descriptors of one kind declared in a class body, bound by __set_name__
RECURSIVE OwnOfKind(_, _, _, _)
OwnOfKind(decls, kind, owner, i) ==
    IF i > Len(decls) THEN <<>>
    ELSE IF decls[i].kind # kind THEN OwnOfKind(decls, kind, owner, i + 1)
    ELSE <<IF kind = "nested" THEN nested_set_name(decls[i].d, decls[i].name)
           ELSE set_name(decls[i].d, owner, decls[i].name)>>
         \o OwnOfKind(decls, kind, owner, i + 1)

\* the class with no filter base: what BaseFilter inherits from
NoClass ==
    [name |-> "", base |-> "", abstract |-> TRUE, Meta |-> NoMeta,
     declared_fields |-> <<>>, marshmallow_schema |-> NoneV,
     _order_by |-> NoneV, _limit |-> NoneV,
     fields |-> <<>>, nested |-> <<>>, method_fields |-> <<>>,
     members |-> EmptyDict, decls |-> <<>>]

\* FilterType.__new__ for `class name(base): <body>`: the registry with the new
\* class, or the error that the class statement raises
FilterType_new(cs, name, base, body) ==
    LET b == IF base = "" THEN NoClass ELSE ClassOf(cs, base)
        fields == OwnOfKind(body.decls, "field", name, 1)
        nested == OwnOfKind(body.decls, "nested", name, 1)
        method_fields == OwnOfKind(body.decls, "method", name, 1)
        presence == check_model_presence(body)
        compat == check_model_compatibility(cs, body.Meta.model, base, nested)
        names == check_field_name(body.Meta.model, fields, 1)
        c0 == [name |-> name, base |-> base, abstract |-> body.abstract,
               Meta |-> IF body.Meta.defined THEN body.Meta ELSE b.Meta,
               declared_fields |-> body.Meta.fields,
               marshmallow_schema |-> body.Meta.marshmallow_schema,
               _order_by |-> body.Meta.order_by,
               _limit |-> body.Meta.page_size,
               fields |-> MapMerge(b.fields, fields),
               nested |-> MapMerge(b.nested, nested),
               method_fields |-> MapMerge(b.method_fields, method_fields),
               members |-> DictUpdate(b.members, body.members),
               decls |-> body.decls]
        c1 == create_missing_fields(c0, body.Meta.fields, 1)
        pf == post_init_all(c1.v.fields, cs, c1.v, 1)
        pm == post_init_all(c1.v.method_fields, cs, c1.v, 1)
    IN  IF ~presence.ok THEN presence
        ELSE IF ~body.abstract /\ ~compat.ok THEN compat
        ELSE IF ~body.abstract /\ ~names.ok THEN names
        ELSE IF ~c1.ok THEN c1
        ELSE IF body.abstract THEN Ok(Append(cs, c1.v))
        ELSE IF ~pf.ok THEN pf
        ELSE IF ~pm.ok THEN pm
        ELSE Ok(Append(cs, [c1.v EXCEPT !.fields = pf.v, !.method_fields = pm.v]))

\* BaseFilter and Filter themselves: abstract, no Meta, no declarations
RootBody == [abstract |-> TRUE, Meta |-> NoMeta, decls |-> <<>>, members |-> EmptyDict]
RootClasses == FilterType_new(<<>>, "Filter", "", RootBody).v

----------------------------------------------------------------------------
(* Applying one field (fields.py) *)

\* a callable member of a filter class, or a plain function: what it returns
Method(name, returns) == Term("method", name, <<Atom("returns", returns)>>)
Function(name, returns) == Term("function", name, <<Atom("returns", returns)>>)
\* method(value)
CallMethod(method, value) ==
    IF method.a[1].s = "None" THEN NoneV ELSE Term("methodexpr", method.s, <<value>>)

\* the result of apply_filter and the operator constructions it made
Applied(res, ops) == [res |-> res, ops |-> ops]

\* BaseField._apply_filter
BaseField_apply_filter(f, value) ==
    LET params == IF value.t = "list" THEN value ELSE PyList(<<value>>)
    IN  Applied(OperatorSql(f.lookup_operator, f.column, params),
                <<Term("operator", f.lookup_operator, <<f.column, params>>)>>)

\* MethodField._apply_filter; ops holds the calls of the method
MethodField_apply_filter(f, c, value) ==
    LET method == extract_method(f, c)
        sql_expression == CallMethod(method.v, value)
    IN  IF ~method.ok THEN Applied(method, <<>>)
        ELSE IF is_none(sql_expression)
        THEN Applied(Raise("ValueError", <<Str("must return a sql expression")>>),
                     <<Term("call", method.v.s, <<value>>)>>)
        ELSE Applied(Ok(sql_expression), <<Term("call", method.v.s, <<value>>)>>)

\* BaseField.get_field_value_for_filter / MethodField.get_field_value_for_filter
get_field_value_for_filter(f, filter_obj) ==
    IF f.cls = "MethodField" THEN get_field_value(f, filter_obj.data)
    ELSE get_field_value(f, filter_obj.validated_data)

\* apply_filter with the allow_none test left out: None is always the placeholder
apply_filter_none_is_absent(f, filter_obj, c) ==
    LET value == get_field_value_for_filter(f, filter_obj)
    IN  IF value = Empty \/ is_none(value) THEN Applied(Ok(empty_sql), <<>>)
        ELSE IF f.cls = "MethodField" THEN MethodField_apply_filter(f, c, value)
        ELSE BaseField_apply_filter(f, value)

\* BaseField.apply_filter; c is the class of filter_obj
apply_filter(f, filter_obj, c) ==
    LET value == get_field_value_for_filter(f, filter_obj)
    IN  IF value = Empty THEN Applied(Ok(empty_sql), <<>>)
        ELSE IF is_none(value) /\ ~f.allow_none THEN Applied(Ok(empty_sql), <<>>)
        ELSE IF f.cls = "MethodField" THEN MethodField_apply_filter(f, c, value)
        ELSE BaseField_apply_filter(f, value)

----------------------------------------------------------------------------
(* Filter instances: construction and validation (filters.py, mixins.py) *)

\* Filter(data=..., operator=..., session=..., marshmallow_schema=...):
\* BaseFilter.__init__ then MarshmallowValidatorFilterMixin.__init__, which sets
\* marshmallow_schema to the argument and validated to False
NewFilter(cls, data, operator, marshmallow_schema) ==
    [cls |-> cls, data |-> data, validated_data |-> EmptyDict, operator |-> operator,
     marshmallow_schema |-> marshmallow_schema, validated |-> FALSE]

\* the marshmallow schemas of the test suite (tests/filters.py AgeSchema,
\* tests/test_filters.py M)
AgeSchema == Atom("schema", "AgeSchema")
EmailSchema == Atom("schema", "M")
\* a schema that declares no field and whose Meta sets unknown = INCLUDE
IncludeSchema == Atom("schema", "IncludeSchema")

\* whether one entry passes the schema's field of that name; a key the schema does
\* not declare is an unknown field
SchemaAccepts(schema, key, value) ==
    CASE schema = AgeSchema /\ key = "min_age" ->
            PyInt(value).ok /\ PyInt(value).v.s \in {"20", "1579734000"}
      [] schema = EmailSchema /\ key = "email" -> value \in {Str("a@b.c")}
      [] schema = IncludeSchema -> TRUE
      [] OTHER -> FALSE

\* schema().load(values): ValidationError with the failing keys, in order
SchemaLoad(schema, values) ==
    LET bad == SelectSeq(values.a, LAMBDA e : ~SchemaAccepts(schema, e.s, e.a[1]))
        missing == IF schema = EmailSchema /\ "email" \notin DictKeys(values)
                   THEN <<Str("email")>> ELSE <<>>
        keys == [i \in 1..Len(bad) |-> Str(bad[i].s)] \o missing
    IN  IF keys = <<>> THEN Ok(values) ELSE Raise("ValidationError", keys)

\* NestedFilter.get_data
get_data(n, parent_filter_obj) ==
    LET value == DictGet(parent_filter_obj.data, nested_data_source_name(n), NoneV)
    IN  IF n.flat THEN Ok(parent_filter_obj.data)
        ELSE IF Truthy(value) /\ value.t # "dict"
        THEN Raise("ValueError", <<Str(nested_data_source_name(n))>>)
        ELSE Ok(IF Truthy(value) THEN value ELSE EmptyDict)

\* build_filter_object handing the inner filter the parent's combinator
build_filter_object_parent_operator(n, parent_filter_obj, data) ==
    NewFilter(n.filter_class, data, parent_filter_obj.operator,
              IF Truthy(n.marshmallow_schema) THEN n.marshmallow_schema
              ELSE parent_filter_obj.marshmallow_schema)

\* NestedFilter.build_filter_object
build_filter_object(n, parent_filter_obj, data) ==
    NewFilter(n.filter_class, data, n.operator,
              IF Truthy(n.marshmallow_schema) THEN n.marshmallow_schema
              ELSE parent_filter_obj.marshmallow_schema)

\* MarshmallowValidatorFilterMixin.get_values: the present fields' raw values by
\* data source name, updated with each nested filter's data
RECURSIVE get_values_fields(_, _, _, _)
get_values_fields(fields, obj, data, i) ==
    IF i > Len(fields) THEN data
    ELSE LET value == get_field_value(fields[i], obj.data)
         IN  get_values_fields(fields, obj,
                IF value = Empty THEN data
                ELSE DictSet(data, get_data_source_name(fields[i]), value),
                i + 1)

RECURSIVE get_values_nested(_, _, _, _)
get_values_nested(nested, obj, data, i) ==
    IF i > Len(nested) THEN Ok(data)
    ELSE LET d == get_data(nested[i], obj)
         IN  IF ~d.ok THEN d
             ELSE get_values_nested(nested, obj, DictUpdate(data, d.v), i + 1)

get_values(c, obj) ==
    get_values_nested(c.nested, obj, get_values_fields(c.fields, obj, EmptyDict, 1), 1)

\* the outcome of a call on an instance, and the instance after it
Called(res, obj) == [res |-> res, obj |-> obj]

FilterValidationError(field_errors) == Raise("FilterValidationError", field_errors)

\* BaseFilter.validate_fields: each present field is validated in map order, its
\* value stored under its data source name; only FieldValidationError is collected
RECURSIVE validate_fields_from(_, _, _, _)
validate_fields_from(fields, obj, errors, i) ==
    IF i > Len(fields)
    THEN Called(IF errors # <<>> THEN FilterValidationError(errors) ELSE Ok(NoneV), obj)
    ELSE LET field == fields[i]
             value == get_field_value(field, obj.data)
             r == validate(field, value)
         IN  IF value = Empty THEN validate_fields_from(fields, obj, errors, i + 1)
             ELSE IF r.ok
             THEN validate_fields_from(fields,
                    [obj EXCEPT !.validated_data =
                        DictSet(@, get_data_source_name(field), r.v)],
                    errors, i + 1)
             ELSE IF r.v.s = "FieldValidationError"
             THEN validate_fields_from(fields, obj,
                    Append(errors, set_field_name(r.v, get_data_source_name(field))), i + 1)
             ELSE Called(r, obj)

validate_fields(c, obj) == validate_fields_from(c.fields, obj, <<>>, 1)

RECURSIVE Filter_validate(_, _)
RECURSIVE validate_nested_from(_, _, _, _, _)

\* the except clause of validate_nested's loop, r the outcome of
\* NestedFilter.validate: only FieldValidationError is collected, so the
\* FilterValidationError of an inner filter leaves the loop
validate_nested_except(cs, nested, obj, errors, i, r) ==
    IF r.ok THEN validate_nested_from(cs, nested, obj, errors, i + 1)
    ELSE IF r.v.s = "FieldValidationError"
    THEN validate_nested_from(cs, nested, obj,
            Append(errors, set_field_name(r.v, nested_data_source_name(nested[i]))), i + 1)
    ELSE r

\* NestedFilter.validate: the inner filter is built over get_data and validated
NestedFilter_validate(cs, n, parent_filter_obj, data) ==
    IF ~data.ok THEN data
    ELSE Filter_validate(cs, build_filter_object(n, parent_filter_obj, data.v)).res

\* BaseFilter.validate_nested
validate_nested_from(cs, nested, obj, errors, i) ==
    IF i > Len(nested)
    THEN IF errors # <<>> THEN FilterValidationError(errors) ELSE Ok(NoneV)
    ELSE validate_nested_except(cs, nested, obj, errors, i,
            NestedFilter_validate(cs, nested[i], obj, get_data(nested[i], obj)))

validate_nested(cs, c, obj) == validate_nested_from(cs, c.nested, obj, <<>>, 1)

\* the last statement of BaseFilter.validate, vn the outcome of validate_nested
set_validated(obj, vn) ==
    IF ~vn.ok THEN Called(vn, obj) ELSE Called(Ok(NoneV), [obj EXCEPT !.validated = TRUE])

\* BaseFilter.validate after validate_fields, vf its outcome
validate_after_fields(cs, c, vf) ==
    IF ~vf.res.ok THEN vf ELSE set_validated(vf.obj, validate_nested(cs, c, vf.obj))

\* validate with the flag set before the fields are validated
BaseFilter_validate_flag_first(cs, obj) ==
    validate_after_fields(cs, ClassOf(cs, obj.cls),
        validate_fields(ClassOf(cs, obj.cls), [obj EXCEPT !.validated = TRUE]))

\* BaseFilter.validate
BaseFilter_validate(cs, obj) ==
    validate_after_fields(cs, ClassOf(cs, obj.cls), validate_fields(ClassOf(cs, obj.cls), obj))

\* the class's schema taking precedence over the instance's
schema_of_class_first(cs, obj) ==
    IF Truthy(ClassOf(cs, obj.cls).marshmallow_schema)
    THEN ClassOf(cs, obj.cls).marshmallow_schema
    ELSE obj.marshmallow_schema

\* the schema validate() uses: the instance's, or else the class's
schema_of(cs, obj) ==
    IF Truthy(obj.marshmallow_schema) THEN obj.marshmallow_schema
    ELSE ClassOf(cs, obj.cls).marshmallow_schema

\* MarshmallowValidatorFilterMixin.validate
Filter_validate(cs, obj) ==
    LET schema == schema_of(cs, obj)
        values == get_values(ClassOf(cs, obj.cls), obj)
        loaded == SchemaLoad(schema, values.v)
    IN  IF ~Truthy(schema) THEN BaseFilter_validate(cs, obj)
        ELSE IF ~values.ok THEN Called(values, obj)
        ELSE IF ~loaded.ok THEN Called(loaded, obj)
        ELSE Called(Ok(NoneV), [obj EXCEPT !.validated = TRUE])

----------------------------------------------------------------------------
(* Filter instances: predicate folding (filters.py) *)

\* BaseFilter.extract_declared_field: the entries named in the class's own
\* declared_fields, every entry when that list is empty
extract_declared_field(c, m) ==
    IF c.declared_fields = <<>> THEN m
    ELSE SelectSeq(m, LAMBDA e :
            \E i \in 1..Len(c.declared_fields) : c.declared_fields[i] = e.public_name)

\* the outcome of a folding stage and the running predicate after each step
Folded(res, trail) == [res |-> res, trail |-> trail]

\* self.operator(acc, [e]).to_sql(), an exception of either operand first
combine(operator, acc, e) ==
    IF ~acc.ok THEN acc
    ELSE IF ~e.ok THEN e
    ELSE OperatorSql(operator, acc.v, PyList(<<e.v>>))

\* reduce(lambda f1, f2: self.operator(get_expression(f1), [get_expression(f2)]).to_sql(), ...)
RECURSIVE reduce_fields(_, _, _, _, _)
reduce_fields(fields, obj, c, acc, i) ==
    IF i > Len(fields) THEN acc
    ELSE reduce_fields(fields, obj, c,
            combine(obj.operator, acc, apply_filter(fields[i], obj, c).res), i + 1)

\* BaseFilter.apply_fields: with one entry left it applies the first field of
\* self.fields
apply_fields(c, obj) ==
    LET fields == extract_declared_field(c, c.fields)
    IN  IF fields = <<>> THEN Ok(empty_sql)
        ELSE IF Len(fields) = 1 THEN apply_filter(c.fields[1], obj, c).res
        ELSE reduce_fields(fields, obj, c, apply_filter(fields[1], obj, c).res, 2)

\* the running predicate f replaced by r, an exception ending the fold
step(f, r) == IF ~r.ok THEN Folded(r, f.trail) ELSE Folded(r, Append(f.trail, r.v))

\* filters = operator(a, [filters]).to_sql() for the operand a
fold(f, operator, a) ==
    IF ~f.res.ok THEN f ELSE step(f, combine(operator, a, f.res))

RECURSIVE apply_all(_, _)

\* the inner filter's predicate, grouped
grouped(r) == IF ~r.ok THEN r ELSE Ok(self_group(r.v))

\* the construction NestedFilter.apply makes: filter_class(data=data, ...)
built(n, data) == <<Term("new", n.filter_class, <<data>>)>>

\* NestedFilter.apply building the inner filter whatever the data
NestedFilter_apply_data_always_built(cs, n, parent_filter_obj, data) ==
    IF ~data.ok THEN Applied(data, <<>>)
    ELSE Applied(grouped(apply_all(cs, build_filter_object(n, parent_filter_obj, data.v)).res),
                 built(n, data.v))

\* NestedFilter.apply over the outcome of get_data: the outcome and the inner
\* filters it constructed
NestedFilter_apply_data(cs, n, parent_filter_obj, data) ==
    IF ~data.ok THEN Applied(data, <<>>)
    ELSE IF ~Truthy(data.v) THEN Applied(Ok(empty_sql), <<>>)
    ELSE Applied(grouped(apply_all(cs, build_filter_object(n, parent_filter_obj, data.v)).res),
                 built(n, data.v))

\* NestedFilter.apply
NestedFilter_apply(cs, n, parent_filter_obj) ==
    NestedFilter_apply_data(cs, n, parent_filter_obj, get_data(n, parent_filter_obj))

\* the combinator BaseFilter.apply_nested joins a nested filter with
outer_operator_of(n, obj) == IF n.outer_operator # "" THEN n.outer_operator ELSE obj.operator

\* BaseFilter.apply_nested
RECURSIVE apply_nested_from(_, _, _, _, _)
apply_nested_from(cs, nested, obj, f, i) ==
    IF i > Len(nested) \/ ~f.res.ok THEN f
    ELSE apply_nested_from(cs, nested, obj,
            fold(f, outer_operator_of(nested[i], obj),
                 NestedFilter_apply(cs, nested[i], obj).res),
            i + 1)

apply_nested(cs, c, obj, f) ==
    apply_nested_from(cs, extract_declared_field(c, c.nested), obj, f, 1)

\* BaseFilter.apply_methods
RECURSIVE apply_methods_from(_, _, _, _, _)
apply_methods_from(method_fields, obj, c, f, i) ==
    IF i > Len(method_fields) \/ ~f.res.ok THEN f
    ELSE apply_methods_from(method_fields, obj, c,
            fold(f, obj.operator, apply_filter(method_fields[i], obj, c).res), i + 1)

apply_methods(c, obj, f) ==
    apply_methods_from(extract_declared_field(c, c.method_fields), obj, c, f, 1)

\* the predicate after apply_fields, the first entry of the trail
fields_folded(ff) == Folded(ff, IF ff.ok THEN <<ff.v>> ELSE <<>>)

\* the outcome of apply_all on the instance obj
Result(f, obj) == [res |-> f.res, obj |-> obj, trail |-> f.trail]

\* BaseFilter.apply_all after validate(), v its outcome
apply_validated(cs, c, v) ==
    IF ~v.res.ok THEN Result(Folded(v.res, <<>>), v.obj)
    ELSE Result(apply_methods(c, v.obj,
                    apply_nested(cs, c, v.obj, fields_folded(apply_fields(c, v.obj)))),
                v.obj)

\* BaseFilter.apply_all: validate(), then fields, nested and method fields
apply_all(cs, obj) == apply_validated(cs, ClassOf(cs, obj.cls), Filter_validate(cs, obj))

----------------------------------------------------------------------------
(* Queries and the Paginator (paginator.py) *)

\* session.query(model).filter(): the predicates, the ordering, the limit and
\* the offset of a Query; an optional integer is a sequence of length 0 or 1
NewQuery ==
    [filters |-> <<>>, joins |-> <<>>, order_by |-> <<>>, limit |-> <<>>, offset |-> <<>>]

\* `x or default` for an optional integer x
OrElse(x, default) == IF x = <<>> \/ x[1] = 0 THEN default ELSE x[1]

\* math.ceil(a / b) for b # 0
ceil(a, b) == IF b > 0 THEN 0 - ((0 - a) \div b) ELSE 0 - (a \div (0 - b))

\* the rows an unsliced query over n rows yields, by position in the result
AllRows(n) == [i \in 1..n |-> i]

\* Query.all() over n rows: LIMIT and OFFSET as the database applies them.  A
\* negative OFFSET or LIMIT is an error for a strict database (PostgreSQL);
\* SQLite reads a negative OFFSET as 0 and a negative LIMIT as no limit
Query_all(query, n, strict) ==
    LET limit == IF query.limit = <<>> THEN n ELSE query.limit[1]
        offset == IF query.offset = <<>> THEN 0 ELSE query.offset[1]
        first == IF offset < 0 THEN 1 ELSE offset + 1
        last == IF limit < 0 \/ first + limit - 1 > n THEN n ELSE first + limit - 1
    IN  IF strict /\ (limit < 0 \/ offset < 0)
        THEN [exc |-> "DBAPIError", objects |-> <<>>]
        ELSE [exc |-> "", objects |-> SubSeq(AllRows(n), first, last)]

\* __init__ keeping the requested page when the page size equals the count
Paginator_init_page_kept(id, query, n, page, page_size) ==
    [id |-> id, query |-> query, count |-> n,
     page_size |-> OrElse(page_size, n),
     page |-> OrElse(page, 1),
     num_pages |-> IF OrElse(page_size, n) # 0 THEN ceil(n, OrElse(page_size, n)) ELSE 1]

\* Paginator.__init__ over a query of n rows; id tells the objects apart
Paginator_init(id, query, n, page, page_size) ==
    [id |-> id, query |-> query, count |-> n,
     page_size |-> OrElse(page_size, n),
     page |-> IF OrElse(page_size, n) # n THEN OrElse(page, 1) ELSE 1,
     num_pages |-> IF OrElse(page_size, n) # 0 THEN ceil(n, OrElse(page_size, n)) ELSE 1]

\* before any Paginator is constructed (a Paginator's page is never 0)
NoPaginator ==
    [id |-> 0, query |-> NewQuery, count |-> 0, page_size |-> 0, page |-> 0, num_pages |-> 0]

has_next_page(p) == p.num_pages > p.page
has_previous_page(p) == 1 < p.page

\* a new Paginator is another object than the receiver
OtherId(p) == 1 - p.id

\* next_page stepping over a page
next_page_by_two(p, n) ==
    IF has_next_page(p)
    THEN Paginator_init(OtherId(p), p.query, n, <<p.page + 2>>, <<p.page_size>>)
    ELSE p

\* Paginator.next_page, the query counting n rows
next_page(p, n) ==
    IF has_next_page(p)
    THEN Paginator_init(OtherId(p), p.query, n, <<p.page + 1>>, <<p.page_size>>)
    ELSE p

\* previous_page constructing the Paginator of the receiver's own page
previous_page_same_page(p, n) ==
    IF has_previous_page(p)
    THEN Paginator_init(OtherId(p), p.query, n, <<p.page>>, <<p.page_size>>)
    ELSE p

\* Paginator.previous_page
previous_page(p, n) ==
    IF has_previous_page(p)
    THEN Paginator_init(OtherId(p), p.query, n, <<p.page - 1>>, <<p.page_size>>)
    ELSE p

\* get_sliced_query with the offset of a 0-based page
get_sliced_query_page_from_0(p) ==
    [p.query EXCEPT !.limit = <<p.page_size>>, !.offset = <<p.page * p.page_size>>]

\* Paginator.get_sliced_query
get_sliced_query(p) ==
    [p.query EXCEPT !.limit = <<p.page_size>>, !.offset = <<(p.page - 1) * p.page_size>>]

\* Paginator.get_objects
get_objects(p, n, strict) == Query_all(get_sliced_query(p), n, strict)

\* no call on the Paginator yet: the call, the arguments the Paginator was
\* constructed with, the receiver before and after the call, the Paginator and
\* the Query the call returned, the rows it returned and the exception it raised
NoPage ==
    [op |-> "", args |-> <<>>, before |-> NoPaginator, recv |-> NoPaginator,
     ret |-> NoPaginator, query |-> NewQuery, objects |-> <<>>, exc |-> ""]

----------------------------------------------------------------------------
(* Ordering, apply() and paginate() of a filter (filters.py) *)

\* a str given by its characters: a holds them, s tells "" from the other texts
Chr(ch) == Atom("chr", ch)
Text(chars) == Term("str", IF chars = <<>> THEN "" ELSE "text", chars)
\* an ordering expression, column.asc() or column.desc()
UnaryExpression(direction, col) == Term("unary", direction, <<col>>)

\* str.strip()
RECURSIVE lstrip(_)
lstrip(chars) ==
    IF chars # <<>> /\ chars[1].s = " " THEN lstrip(Tail(chars)) ELSE chars
RECURSIVE rstrip(_)
rstrip(chars) ==
    IF chars # <<>> /\ chars[Len(chars)].s = " "
    THEN rstrip(SubSeq(chars, 1, Len(chars) - 1)) ELSE chars
strip(chars) == rstrip(lstrip(chars))
\* text.replace(old, "") for a one-character old
replace(chars, old) == SelectSeq(chars, LAMBDA ch : ch.s # old)
\* text.startswith(prefix) for a one-character prefix
startswith(chars, prefix) == chars # <<>> /\ chars[1].s = prefix
\* text.split(sep): the pieces between the separators; cur is the piece being read
RECURSIVE split(_, _, _)
split(chars, sep, cur) ==
    IF chars = <<>> THEN <<cur>>
    ELSE IF chars[1].s = sep THEN <<cur>> \o split(Tail(chars), sep, <<>>)
    ELSE split(Tail(chars), sep, Append(cur, chars[1]))

\* the attribute names that the characters of the model's texts can spell
SpelledName(chars) == IF chars = <<Chr("i"), Chr("d")>> THEN "id" ELSE ""
\* getattr(model, name, None)
getattr_model(model, chars) ==
    IF SpelledName(chars) # "" /\ hasattr_model(model, SpelledName(chars))
    THEN Column(model, SpelledName(chars)) ELSE NoneV

\* BaseFilter._parse_order_by on a stripped text
parse_stripped(model, chars) ==
    IF ~Truthy(getattr_model(model, replace(chars, "-")))
    THEN Raise("OrderByException", <<Atom("model", model), Text(replace(chars, "-"))>>)
    ELSE Ok(UnaryExpression(IF startswith(chars, "-") THEN "desc" ELSE "asc",
                            getattr_model(model, replace(chars, "-"))))

\* BaseFilter._parse_order_by
_parse_order_by(model, ob) ==
    IF ob.t = "unary" THEN Ok(ob)
    ELSE IF ob.t # "str" THEN Ok(NoneV)
    ELSE parse_stripped(model, strip(ob.a))

\* [self._parse_order_by(ob) for ob in items]: the first exception ends it
parse_cons(r, rest) ==
    IF ~r.ok THEN r ELSE IF ~rest.ok THEN rest ELSE Ok(<<r.v>> \o rest.v)
RECURSIVE parse_each(_, _, _)
parse_each(model, items, i) ==
    IF i > Len(items) THEN Ok(<<>>)
    ELSE parse_cons(_parse_order_by(model, items[i]), parse_each(model, items, i + 1))

\* order_by() parsing every piece of a str, the blank ones as well
order_by_items_every_piece(order_by) ==
    IF order_by.t = "str"
    THEN LET kept == split(order_by.a, ",", <<>>)
         IN  [i \in 1..Len(kept) |-> Text(kept[i])]
    ELSE IF order_by.t \in {"list", "tuple"} THEN order_by.a
    ELSE <<order_by>>

\* the elements order_by() parses: the non-blank pieces of a str, the elements of
\* a list or tuple, the value itself otherwise
order_by_items(order_by) ==
    IF order_by.t = "str"
    THEN LET kept == SelectSeq(split(order_by.a, ",", <<>>),
                               LAMBDA ob : ob # <<>> /\ strip(ob) # <<>>)
         IN  [i \in 1..Len(kept) |-> Text(kept[i])]
    ELSE IF order_by.t \in {"list", "tuple"} THEN order_by.a
    ELSE <<order_by>>

\* query.order_by(*order_by) with the parsed elements that are not None, the
\* query itself when there is none
order_by_parsed(query, parsed) ==
    IF ~parsed.ok THEN parsed
    ELSE Ok([query EXCEPT !.order_by = @ \o SelectSeq(parsed.v, LAMBDA ob : ~is_none(ob))])

\* BaseFilter.order_by
order_by_specified(c, query, order_by) ==
    IF is_none(order_by) THEN Ok(query)
    ELSE order_by_parsed(query, parse_each(c.Meta.model, order_by_items(order_by), 1))
order_by(c, obj, query) ==
    order_by_specified(c, query, DictGet(obj.data, "order_by", c._order_by))

\* joins.extend(more), an exception of either first
joins_extend(joins, more) ==
    IF ~joins.ok THEN joins ELSE IF ~more.ok THEN more ELSE Ok(joins.v \o more.v)

\* BaseFilter._get_joins: field.joins of every allow-listed field, then the joins
\* of the classes of the allow-listed nested filters.  No field class defines
\* `joins` (BaseField.__init__ sets `join`): reading it raises AttributeError
RECURSIVE _get_joins(_, _)
RECURSIVE nested_joins(_, _, _)
nested_joins(cs, nested, i) ==
    IF i > Len(nested) THEN Ok(<<>>)
    ELSE joins_extend(_get_joins(cs, ClassOf(cs, nested[i].filter_class)),
                      nested_joins(cs, nested, i + 1))
_get_joins(cs, c) ==
    IF extract_declared_field(c, c.fields) # <<>> THEN Raise("AttributeError", <<>>)
    ELSE nested_joins(cs, extract_declared_field(c, c.nested), 1)

\* BaseFilter._apply_join: each join once, in order, unless already joined
RECURSIVE _apply_join_from(_, _, _)
_apply_join_from(query, joins, i) ==
    IF i > Len(joins) THEN query
    ELSE IF \E k \in 1..Len(query.joins) : query.joins[k] = joins[i]
    THEN _apply_join_from(query, joins, i + 1)
    ELSE _apply_join_from([query EXCEPT !.joins = Append(@, joins[i])], joins, i + 1)
_apply_join(query, joins) == _apply_join_from(query, joins, 1)

\* the outcome of apply(): the query it returns, or the exception
QueryResult(res, obj, query) == [res |-> res, obj |-> obj, query |-> query]
ReturnsQuery == Ok(Atom("Query", ""))

\* BaseFilter.apply after apply_all(): filter, joins, ordering
apply_ordered(obj, q) ==
    IF q.ok THEN QueryResult(ReturnsQuery, obj, q.v) ELSE QueryResult(q, obj, NewQuery)
apply_joined(c, obj, query, joins) ==
    IF ~joins.ok THEN QueryResult(joins, obj, NewQuery)
    ELSE apply_ordered(obj, order_by(c, obj, _apply_join(query, joins.v)))
apply_filtered(cs, c, r) ==
    IF ~r.res.ok THEN QueryResult(r.res, r.obj, NewQuery)
    ELSE apply_joined(c, r.obj, [NewQuery EXCEPT !.filters = <<r.res.v>>], _get_joins(cs, c))

\* BaseFilter.apply
apply(cs, obj) == apply_filtered(cs, ClassOf(cs, obj.cls), apply_all(cs, obj))

\* a or b
Or(a, b) == IF Truthy(a) THEN a ELSE b

\* the number an int stands for
IntOf(v) ==
    CASE v.s = "-1" -> 0 - 1
      [] v.s = "0" -> 0
      [] v.s = "1" -> 1
      [] v.s = "2" -> 2
      [] v.s = "12" -> 12
      [] v.s = "20" -> 20
      [] v.s = "1579734000" -> 1579734000

\* the outcome of paginate(): the Paginator and the page and page size it was
\* constructed with, or the exception
PageResult(res, obj, args, paginator) ==
    [res |-> res, obj |-> obj, args |-> args, paginator |-> paginator]
ReturnsPaginator == Ok(Atom("Paginator", ""))

\* Paginator(query=self.apply(), page=page, page_size=page_size) over the n rows
\* that the filtered query counts
paginate_over(q, n, page, page_size) ==
    IF ~q.res.ok THEN PageResult(q.res, q.obj, <<>>, NoPaginator)
    ELSE PageResult(ReturnsPaginator, q.obj, <<<<page>>, <<page_size>>>>,
                    Paginator_init(0, q.query, n, <<page>>, <<page_size>>))

\* paginate() passing the page on as it was read
paginate_paged_as_read(cs, obj, n, page_size, page) ==
    IF ~page.ok THEN PageResult(page, obj, <<>>, NoPaginator)
    ELSE paginate_over(apply(cs, obj), n, IntOf(page.v),
                       IF page_size <= 0 THEN 0 ELSE page_size)

\* BaseFilter.paginate after page_size and page are read: both are clamped
paginate_paged(cs, obj, n, page_size, page) ==
    IF ~page.ok THEN PageResult(page, obj, <<>>, NoPaginator)
    ELSE paginate_over(apply(cs, obj), n, IF IntOf(page.v) < 1 THEN 1 ELSE IntOf(page.v),
                       IF page_size <= 0 THEN 0 ELSE page_size)

paginate_sized(cs, obj, n, page_size) ==
    IF ~page_size.ok THEN PageResult(page_size, obj, <<>>, NoPaginator)
    ELSE paginate_paged(cs, obj, n, IntOf(page_size.v),
                        PyInt(Or(DictGet(obj.data, "page", NoneV), IntV("1"))))

\* BaseFilter.paginate
paginate(cs, obj, n) ==
    paginate_sized(cs, obj, n,
        PyInt(Or(Or(DictGet(obj.data, "page_size", NoneV), ClassOf(cs, obj.cls)._limit),
                 IntV("0"))))

----------------------------------------------------------------------------
(* Fields on their own: validate(value) and apply_filter(filter_obj) *)

RawValues ==
    {NoneV, Str(""), Str("1"), Str("1.0"), Str("a"), Str("1e20"), Str("2020-01-23"),
     IntV("1"), IntV("1579734000"), FloatV("1.1"), FloatV("1e20"), BoolV(TRUE),
     Date("2020-12-02"), DateTime("2020-12-02 00:00:00", <<>>),
     PyList(<<IntV("1"), IntV("12")>>), PyList(<<>>)}

LookupOperators == {EqualsOperator, INOperator, RangeOperator, "IsEmptyOperator"}

\* a field declared as `age = cls(...)` on a filter over User, after post_init
BoundField(cls, lookup_operator, data_source_name, allow_none, is_timestamp) ==
    set_column(set_name(NewField(cls, <<>>, lookup_operator, NoneV, data_source_name,
                                 allow_none, is_timestamp), "F", "age"), "User").v

FieldConfigs ==
    {BoundField(cls, op, dsn, an, ts) :
        cls \in TypedFieldClasses \cup {"Field"}, op \in LookupOperators,
        dsn \in {"", "src"}, an \in BOOLEAN, ts \in BOOLEAN}

NoInstance ==
    [cls |-> "", data |-> EmptyDict, validated_data |-> EmptyDict, operator |-> "",
     marshmallow_schema |-> NoneV, validated |-> FALSE]

NoCall == [op |-> "", res |-> NoOutcome, ops |-> <<>>]
\* no call on the instance yet: the outcome, the running predicate after each
\* folding step, and the values an external schema was loaded with
NoOut == [op |-> "", res |-> NoOutcome, trail |-> <<>>, loaded |-> NoneV]
NoDef == [op |-> "", res |-> NoOutcome, name |-> "", base |-> "", body |-> RootBody]

InitFields ==
    /\ is14 \in BOOLEAN
    /\ ids = <<>>
    /\ classes = RootClasses
    /\ defOut = NoDef
    /\ inst = NoInstance
    /\ out = NoOut
    /\ fld \in FieldConfigs
    /\ raw \in RawValues
    /\ fdata \in {EmptyDict, Dict(<<KV("age", raw)>>), Dict(<<KV("src", raw)>>)}
    /\ fres = NoCall
    /\ rows = 0
    /\ pag = NoPaginator
    /\ pres = NoPage

\* field.validate(raw)
FieldValidate ==
    /\ fres' = [op |-> "validate", res |-> validate(fld, raw), ops |-> <<>>]
    /\ UNCHANGED <<ids, is14, classes, defOut, inst, out, fld, raw, fdata, rows, pag, pres>>

\* field.apply_filter(filter_obj) with filter_obj.validated_data = fdata
FieldApplyFilter ==
    LET r == apply_filter(fld, [NoInstance EXCEPT !.validated_data = fdata],
                          ClassOf(classes, "Filter"))
    IN  /\ fres' = [op |-> "apply_filter", res |-> r.res, ops |-> r.ops]
        /\ UNCHANGED <<ids, is14, classes, defOut, inst, out, fld, raw, fdata, rows, pag, pres>>

NextFields == FieldValidate \/ FieldApplyFilter

SpecFields == InitFields /\ [][NextFields]_vars

\* C2: apply_filter is total over {absent, None disallowed, None allowed, present}:
\* the two placeholder cases return the literal-true placeholder and construct no
\* operator; None with allow_none gives the lookup operator over [None]; any other
\* value gives the lookup operator over [value], a list value being the params list.
C2_ApplyFilterCases ==
    fres.op = "apply_filter" =>
        LET key == IF fld.data_source_name = "" THEN fld.public_name
                   ELSE fld.data_source_name
            absent == \A i \in 1..Len(fdata.a) : fdata.a[i].s # key
            params == IF raw.t = "list" THEN raw ELSE PyList(<<raw>>)
        IN  IF absent \/ (raw = NoneV /\ ~fld.allow_none)
            THEN fres.res = Ok(empty_sql) /\ fres.ops = <<>>
            ELSE /\ fres.ops = <<Term("operator", fld.lookup_operator, <<fld.column, params>>)>>
                 /\ fres.res = OperatorSql(fld.lookup_operator, fld.column, params)
                 /\ raw = NoneV => params = PyList(<<NoneV>>)

\* None is in the data and allow_none is set: the operator ran over [None]
C2_Witness ==
    /\ fres.op = "apply_filter"
    /\ raw = NoneV /\ fld.allow_none /\ fdata # EmptyDict
    /\ fres.ops # <<>> /\ fres.res.ok
    /\ fres.res.v = Term("op", "eq", <<Column("User", "age"), NoneV>>)

\* the type of the value a typed field validates to
TargetType(cls) ==
    CASE cls = "IntegerField" -> "int"
      [] cls = "DecimalField" -> "Decimal"
      [] cls = "FloatField" -> "float"
      [] cls = "StringField" -> "str"
      [] cls = "BooleanField" -> "bool"
      [] cls = "DateField" -> "date"
      [] OTHER -> "datetime"

\* C9: validate(value) of a typed field returns a value of the field's target type
\* or raises FieldValidationError, for every raw input.
C9_ValidateTypedOrFieldError ==
    (fres.op = "validate" /\ fld.cls \in TypedFieldClasses) =>
        IF fres.res.ok THEN fres.res.v.t = TargetType(fld.cls)
        ELSE fres.res.v.s = "FieldValidationError"

----------------------------------------------------------------------------
(* Class statements: `class name(base): <body>` through FilterType.__new__ *)

\* at most this many descriptors are declared in one class body
MaxDecls == 2

NoField == NewField("", <<>>, "", NoneV, "", FALSE, FALSE)
NoNested == NewNested("", "", "", TRUE, "", NoneV)
FieldDecl(name, f) == [kind |-> "field", name |-> name, f |-> f, n |-> NoNested]
MethodDecl(name, f) == [kind |-> "method", name |-> name, f |-> f, n |-> NoNested]
NestedDecl(name, n) == [kind |-> "nested", name |-> name, f |-> NoField, n |-> n]

\* OwnOfKind reads the descriptor of a declaration through d
WithD(decl) ==
    [kind |-> decl.kind, name |-> decl.name,
     d |-> IF decl.kind = "nested" THEN decl.n ELSE decl.f]

PlainField(cls, lookup_operator) == NewField(cls, <<>>, lookup_operator, NoneV, "", FALSE, FALSE)

\* the declarations a class body is drawn from, in the order they are written
DeclPool(cs) ==
    <<FieldDecl("first_name", PlainField("Field", EqualsOperator)),
      FieldDecl("email", PlainField("StringField", ContainsOperator)),
      FieldDecl("email", PlainField("IntegerField", EqualsOperator)),
      FieldDecl("title", PlainField("Field", EqualsOperator)),
      FieldDecl("author", NewField("Field", <<"user", "first_name">>, ContainsOperator,
                                   NoneV, "", FALSE, FALSE)),
      FieldDecl("cc", NewField("Field", <<>>, EqualsOperator, Str("some_column"),
                               "", FALSE, FALSE)),
      MethodDecl("m", NewMethodField(Str("filter_m"), "")),
      NestedDecl("n", NewNested("TypedFilter", AndOperator, "", TRUE, "", NoneV))>>

RECURSIVE PickDecls(_, _, _)
PickDecls(pool, S, i) ==
    IF i > Len(pool) THEN <<>>
    ELSE (IF i \in S THEN <<pool[i]>> ELSE <<>>) \o PickDecls(pool, S, i + 1)

DeclLists(cs) ==
    LET pool == DeclPool(cs)
    IN  {PickDecls(pool, S, 1) :
            S \in {T \in SUBSET (1..Len(pool)) :
                     /\ Cardinality(T) <= MaxDecls
                     /\ \A i, j \in T : i # j => pool[i].name # pool[j].name}}

Metas ==
    {NoMeta, MetaWithoutModel, MetaOf("User", <<>>, NoneV), MetaOf("User", <<"age">>, NoneV),
     MetaOf("Article", <<>>, NoneV)}

ClassMembers == Dict(<<KV("filter_m", Method("filter_m", "expr"))>>)

Bodies(cs) ==
    {[abstract |-> ab, Meta |-> meta, decls |-> decls, members |-> ClassMembers] :
        ab \in BOOLEAN, meta \in Metas, decls \in DeclLists(cs)}

\* the names given to the classes, in definition order
ClassNames == <<"F1", "F2">>

\* tests/filters.py: class TypedFilter(Filter), a filter over User
TypedFilterBody ==
    [abstract |-> FALSE, Meta |-> MetaOf("User", <<>>, NoneV), members |-> EmptyDict,
     decls |-> <<WithD(FieldDecl("first_name", PlainField("StringField", EqualsOperator))),
                 WithD(FieldDecl("min_age", NewField("IntegerField", <<"age">>, GTOperator,
                                                     NoneV, "", FALSE, FALSE)))>>]
WithTypedFilter == FilterType_new(RootClasses, "TypedFilter", "Filter", TypedFilterBody).v

\* no class statement calls to_sql: the sqlalchemy version plays no part here
InitDef ==
    /\ is14 = FALSE
    /\ ids = <<>>
    /\ classes = WithTypedFilter
    /\ defOut = NoDef
    /\ inst = NoInstance
    /\ out = NoOut
    /\ fld = NoField
    /\ raw = NoneV
    /\ fdata = EmptyDict
    /\ fres = NoCall
    /\ rows = 0
    /\ pag = NoPaginator
    /\ pres = NoPage

\* one class statement: the class is registered, or the statement raises and the
\* module that holds it stops loading
DefineClass ==
    /\ defOut.res.ok
    /\ Len(classes) - 2 < Len(ClassNames)
    /\ \E base \in ClassNamesOf(classes) \ {"TypedFilter"}, body \in Bodies(classes) :
        LET name == ClassNames[Len(classes) - 1]
            r == FilterType_new(classes, name, base,
                                [body EXCEPT !.decls = [i \in 1..Len(@) |-> WithD(@[i])]])
        IN  /\ classes' = IF r.ok THEN r.v ELSE classes
            /\ defOut' = [op |-> "class", res |-> IF r.ok THEN Ok(NoneV) ELSE r,
                          name |-> name, base |-> base, body |-> body]
    /\ UNCHANGED <<ids, is14, inst, out, fld, raw, fdata, fres, rows, pag, pres>>

NextDef == DefineClass

SpecDef == InitDef /\ [][NextDef]_vars

\* C6: every non-abstract class that was created references a model, each of its
\* non-foreign-key fields names an attribute of that model, and its model is the
\* model of its base filter and of each nested filter it embeds; a class statement
\* that fails does so with AttributeError or FilterNotCompatible.
C6_DefinitionInvariant ==
    /\ \A i \in 1..Len(classes) :
        LET c == classes[i]
        IN  ~c.abstract =>
              /\ c.Meta.defined /\ c.Meta.hasModel
              /\ \A j \in 1..Len(c.fields) :
                    ~c.fields[j].is_foreign_key =>
                        hasattr_model(c.Meta.model, AttrNameOf(c.fields[j]))
              /\ (c.base # "" /\ ClassOf(classes, c.base).Meta.hasModel) =>
                    ClassOf(classes, c.base).Meta.model = c.Meta.model
              /\ \A j \in 1..Len(c.nested) :
                    LET nc == ClassOf(classes, c.nested[j].filter_class)
                    IN  nc.Meta.hasModel /\ nc.Meta.model = c.Meta.model
    /\ ~defOut.res.ok => defOut.res.v.s \in {"AttributeError", "FilterNotCompatible"}

\* what a declaration says of a field, apart from the binding post_init gives it
Declared(f) ==
    [cls |-> f.cls, public_name |-> f.public_name, field_name |-> f.field_name,
     data_source_name |-> f.data_source_name, lookup_operator |-> f.lookup_operator,
     allow_none |-> f.allow_none, is_timestamp |-> f.is_timestamp, method |-> f.method]

OwnNames(c, kind) == {c.decls[i].name : i \in {j \in 1..Len(c.decls) : c.decls[j].kind = kind}}
OwnDecl(c, name) == c.decls[CHOOSE i \in 1..Len(c.decls) : c.decls[i].name = name].d

\* one map of a subclass against the same map of its base
InheritsMap(c, sub, base, kind) ==
    /\ (MapKeys(base) \cup OwnNames(c, kind)) \subseteq MapKeys(sub)
    /\ Cardinality(MapKeys(sub)) = Len(sub)
    /\ \A k \in OwnNames(c, kind) :
          IF kind = "nested" THEN MapGet(sub, k) = nested_set_name(OwnDecl(c, k), k)
          ELSE Declared(MapGet(sub, k)) = Declared(set_name(OwnDecl(c, k), c.name, k))
    /\ \A k \in MapKeys(base) \ OwnNames(c, kind) :
          IF kind = "nested" THEN MapGet(sub, k) = MapGet(base, k)
          ELSE Declared(MapGet(sub, k)) = Declared(MapGet(base, k))

\* C7: the maps of a subclass hold every entry of its base's maps and its own
\* declarations; a redeclared name is held once, with the subclass's descriptor.
C7_SubclassMaps ==
    \A i \in 1..Len(classes) :
        LET c == classes[i]
            b == ClassOf(classes, c.base)
        IN  c.base # "" =>
              /\ InheritsMap(c, c.fields, b.fields, "field")
              /\ InheritsMap(c, c.nested, b.nested, "nested")
              /\ InheritsMap(c, c.method_fields, b.method_fields, "method")

\* F2 redeclares email, a StringField of its base F1, as an IntegerField and
\* inherits another field of F1
C7_Witness ==
    /\ "F1" \in ClassNamesOf(classes)
    /\ "F2" \in ClassNamesOf(classes)
    /\ ClassOf(classes, "F2").base = "F1"
    /\ Len(ClassOf(classes, "F1").fields) = 2
    /\ "email" \in MapKeys(ClassOf(classes, "F1").fields)
    /\ MapGet(ClassOf(classes, "F1").fields, "email").cls = "StringField"
    /\ Len(ClassOf(classes, "F2").fields) = 2
    /\ MapGet(ClassOf(classes, "F2").fields, "email").cls = "IntegerField"

----------------------------------------------------------------------------
(* Filter instances over a small program: construct, validate(), apply_all() *)

\* the combinators a filter is constructed with
Combinators == {AndOperator, OrOperator}

\* Filter(data=data, operator=operator, session=..., marshmallow_schema=schema)
Construct(Classes, Datas, Schemas) ==
    /\ \E cls \in Classes, data \in Datas, operator \in Combinators,
          schema \in Schemas :
        inst' = NewFilter(cls, data, operator, schema)
    /\ out' = [NoOut EXCEPT !.op = "new", !.res = Ok(NoneV)]
    /\ UNCHANGED <<ids, is14, classes, defOut, fld, raw, fdata, fres, rows, pag, pres>>

\* the values validate() loads the schema with, None when no schema is loaded
LoadedBy(cs, obj) ==
    LET values == get_values(ClassOf(cs, obj.cls), obj)
    IN  IF Truthy(schema_of(cs, obj)) /\ values.ok THEN values.v ELSE NoneV

\* filter_obj.validate()
Validate ==
    /\ inst.cls # ""
    /\ \E r \in {Filter_validate(classes, inst)} :
        /\ inst' = r.obj
        /\ out' = [op |-> "validate", res |-> r.res, trail |-> <<>>,
                   loaded |-> LoadedBy(classes, inst)]
    /\ UNCHANGED <<ids, is14, classes, defOut, fld, raw, fdata, fres, rows, pag, pres>>

\* filter_obj.apply_all()
ApplyAll ==
    /\ inst.cls # ""
    /\ \E r \in {apply_all(classes, inst)} :
        /\ inst' = r.obj
        /\ out' = [op |-> "apply_all", res |-> r.res, trail |-> r.trail,
                   loaded |-> LoadedBy(classes, inst)]
    /\ UNCHANGED <<ids, is14, classes, defOut, fld, raw, fdata, fres, rows, pag, pres>>

\* class F(Filter) over User: two typed fields, a nested filter over TypedFilter,
\* a method field, and the allow-list Meta.fields
FBody(allow, operator, outer_operator, flat) ==
    [abstract |-> FALSE, Meta |-> MetaOf("User", allow, NoneV),
     members |-> Dict(<<KV("filter_m", Method("filter_m", "expr"))>>),
     decls |-> <<WithD(FieldDecl("email", PlainField("StringField", ContainsOperator))),
                 WithD(FieldDecl("age", PlainField("IntegerField", EqualsOperator))),
                 WithD(NestedDecl("n", NewNested("TypedFilter", operator, outer_operator,
                                                 flat, "", NoneV))),
                 WithD(MethodDecl("m", NewMethodField(Str("filter_m"), "")))>>]

\* class G(F): no declarations, a Meta of its own with or without an allow-list
GBody(meta) == [abstract |-> FALSE, Meta |-> meta, members |-> EmptyDict, decls |-> <<>>]

ApplyProgram(allow, gmeta, operator, outer_operator, flat) ==
    LET withF == FilterType_new(WithTypedFilter, "F", "Filter",
                                FBody(allow, operator, outer_operator, flat)).v
    IN  FilterType_new(withF, "G", "F", GBody(gmeta)).v

AllowLists ==
    {<<>>, <<"email">>, <<"age">>, <<"email", "age">>, <<"age", "n">>, <<"email", "m">>,
     <<"n", "m">>}

NestedData == Dict(<<KV("first_name", Str("x")), KV("min_age", IntV("12"))>>)

ApplyData ==
    {EmptyDict,
     Dict(<<KV("email", Str("a")), KV("age", IntV("1"))>>),
     Dict(<<KV("age", Str("1")), KV("first_name", Str("x")), KV("min_age", IntV("12"))>>),
     Dict(<<KV("email", Str("a")), KV("n", NestedData)>>),
     Dict(<<KV("email", Str("a")), KV("age", IntV("1")), KV("first_name", Str("x")),
            KV("n", NestedData), KV("m", IntV("1"))>>),
     Dict(<<KV("m", IntV("1")), KV("age", Str("a"))>>),
     Dict(<<KV("m", NoneV), KV("n", Str("abc"))>>)}

InitApply ==
    /\ is14 \in BOOLEAN
    /\ ids = <<>>
    /\ classes \in {ApplyProgram(allow, gmeta, operator, outer_operator, flat) :
                        allow \in AllowLists,
                        gmeta \in {MetaOf("User", <<>>, NoneV), MetaOf("User", <<"age">>, NoneV)},
                        operator \in {AndOperator, OrOperator},
                        outer_operator \in {"", AndOperator, OrOperator},
                        flat \in BOOLEAN}
    /\ defOut = NoDef
    /\ inst = NoInstance
    /\ out = NoOut
    /\ fld = NoField
    /\ raw = NoneV
    /\ fdata = EmptyDict
    /\ fres = NoCall
    /\ rows = 0
    /\ pag = NoPaginator
    /\ pres = NoPage

\* the classes of the program that are instantiated
ApplyClasses == {"F", "G"}

NextApply == Construct(ApplyClasses, ApplyData, {NoneV}) \/ Validate \/ ApplyAll

SpecApply == InitApply /\ [][NextApply]_vars

\* the entries of a map whose names the class's own allow-list admits
AllowListed(c, m) ==
    SelectSeq(m, LAMBDA e :
        \/ c.declared_fields = <<>>
        \/ \E i \in 1..Len(c.declared_fields) : c.declared_fields[i] = e.public_name)

\* the predicate fragment of a field of the live instance
Fragment(f) == apply_filter(f, inst, ClassOf(classes, inst.cls)).res.v

\* op(...op(op(e1, e2), e3)..., en) over the fragments of fields i..n
RECURSIVE FoldLeft(_, _, _, _)
FoldLeft(operator, fields, acc, i) ==
    IF i > Len(fields) THEN acc
    ELSE FoldLeft(operator, fields,
                  OperatorSql(operator, acc, PyList(<<Fragment(fields[i])>>)).v, i + 1)

\* C3: apply_all() folds the allow-listed ordinary fields left to right in
\* declaration order with the instance's combinator, then the nested filters, then
\* the method fields, each method field combined with the running result by the
\* instance's combinator.
C3_FoldOrder ==
    (out.op = "apply_all" /\ out.res.ok) =>
        LET c == ClassOf(classes, inst.cls)
            fs == AllowListed(c, c.fields)
            ns == AllowListed(c, c.nested)
            ms == AllowListed(c, c.method_fields)
        IN  /\ Len(out.trail) = 1 + Len(ns) + Len(ms)
            /\ out.trail[1] = IF fs = <<>> THEN empty_sql
                              ELSE FoldLeft(inst.operator, fs, Fragment(fs[1]), 2)
            /\ \A j \in 1..Len(ms) :
                  out.trail[1 + Len(ns) + j] =
                      OperatorSql(inst.operator, Fragment(ms[j]),
                                  PyList(<<out.trail[Len(ns) + j]>>)).v
            /\ out.res.v = out.trail[Len(out.trail)]

\* the operand a nested filter contributes to the live instance: the placeholder
\* for empty data, else the group of the inner filter's predicate, the inner
\* filter folding with the descriptor's inner combinator
NestedOperand(n) ==
    LET data == get_data(n, inst).v
        inner == [cls |-> n.filter_class, data |-> data, validated_data |-> EmptyDict,
                  operator |-> n.operator, marshmallow_schema |-> NoneV,
                  validated |-> FALSE]
    IN  IF ~Truthy(data) THEN empty_sql
        ELSE self_group(apply_all(classes, inner).res.v)

\* C4: each allow-listed nested filter contributes one grouped operand, built with
\* the descriptor's inner combinator, and the operand is combined with the running
\* predicate by the descriptor's outer combinator when set, else by the parent
\* instance's combinator; the inner combinator never joins the operand.
C4_NestedOperand ==
    (out.op = "apply_all" /\ out.res.ok) =>
        LET c == ClassOf(classes, inst.cls)
            ns == AllowListed(c, c.nested)
        IN  \A k \in 1..Len(ns) :
              LET joiner == IF ns[k].outer_operator # "" THEN ns[k].outer_operator
                            ELSE inst.operator
              IN  /\ out.trail[1 + k] =
                        OperatorSql(joiner, NestedOperand(ns[k]), PyList(<<out.trail[k]>>)).v
                  /\ (is14 = FALSE) =>
                        /\ out.trail[1 + k].s = sql_operator(joiner)
                        /\ out.trail[1 + k].a[2] = out.trail[k]

\* the nested filter n of F has inner combinator Or and no outer combinator, the
\* instance combines with And: the operand is the group of an or_, joined by and_
C4_Witness ==
    /\ out.op = "apply_all" /\ out.res.ok
    /\ inst.cls = "F" /\ inst.operator = AndOperator
    /\ ClassOf(classes, "F").declared_fields = <<"age", "n">>
    /\ MapGet(ClassOf(classes, "F").nested, "n").operator = OrOperator
    /\ MapGet(ClassOf(classes, "F").nested, "n").outer_operator = ""
    /\ Len(out.trail) = 2
    /\ out.trail[2].s = "and_"
    /\ out.trail[2].a[1].t = "group"
    /\ out.trail[2].a[1].a[1].s = "or_"

\* whether expression t occurs in expression e
RECURSIVE Occurs(_, _)
Occurs(t, e) == e = t \/ \E i \in 1..Len(e.a) : Occurs(t, e.a[i])

\* C5: with a non-empty allow-list only the fields, nested filters and method
\* fields named in it take part in the folding, with an empty one all do; the rest
\* stay in the class's maps and contribute nothing.  The list is the class's own.
C5_AllowList ==
    (out.op = "apply_all" /\ out.res.ok) =>
        LET c == ClassOf(classes, inst.cls)
            listed(e) == \/ c.declared_fields = <<>>
                         \/ \E i \in 1..Len(c.declared_fields) :
                                c.declared_fields[i] = e.public_name
        IN  /\ \A i \in 1..Len(c.fields) :
                  Fragment(c.fields[i]) # empty_sql =>
                      (Occurs(Fragment(c.fields[i]), out.res.v) <=> listed(c.fields[i]))
            /\ \A i \in 1..Len(c.method_fields) :
                  Fragment(c.method_fields[i]) # empty_sql =>
                      (Occurs(Fragment(c.method_fields[i]), out.res.v)
                          <=> listed(c.method_fields[i]))
            /\ \A i \in 1..Len(c.nested) :
                  NestedOperand(c.nested[i]).t = "group" =>
                      (Occurs(NestedOperand(c.nested[i]), out.res.v) <=> listed(c.nested[i]))
            /\ "email" \in MapKeys(c.fields)
            /\ "age" \in MapKeys(c.fields)
            /\ "n" \in MapKeys(c.nested) /\ "m" \in MapKeys(c.method_fields)

----------------------------------------------------------------------------
(* validate() over a filter with typed fields, two nested filters and schemas *)

\* class V(Filter) over User: two typed fields, the nested filter n over
\* TypedFilter (flat or not, with or without a schema of its own), the nested
\* filter k reading the key "other", and Meta.marshmallow_schema
VBody(flat, nested_schema, class_schema) ==
    [abstract |-> FALSE, Meta |-> MetaOf("User", <<>>, class_schema), members |-> EmptyDict,
     decls |-> <<WithD(FieldDecl("email", PlainField("StringField", ContainsOperator))),
                 WithD(FieldDecl("age", PlainField("IntegerField", EqualsOperator))),
                 WithD(NestedDecl("n", NewNested("TypedFilter", AndOperator, "", flat, "",
                                                 nested_schema))),
                 WithD(NestedDecl("k", NewNested("TypedFilter", OrOperator, "", FALSE,
                                                 "other", NoneV)))>>]

ValidateProgram(flat, nested_schema, class_schema) ==
    FilterType_new(WithTypedFilter, "V", "Filter", VBody(flat, nested_schema, class_schema)).v

ValidateData ==
    {EmptyDict,
     Dict(<<KV("email", Str("a@b.c")), KV("age", Str("1"))>>),
     Dict(<<KV("email", Str("a@b.c"))>>),
     Dict(<<KV("min_age", Str("20"))>>),
     Dict(<<KV("n", Dict(<<KV("min_age", Str("20"))>>))>>),
     Dict(<<KV("age", Str("a"))>>),
     Dict(<<KV("age", Str("a")), KV("min_age", Str("b"))>>),
     Dict(<<KV("age", Str("a")), KV("n", Dict(<<KV("min_age", Str("b"))>>))>>),
     Dict(<<KV("n", Dict(<<KV("min_age", Str("b"))>>)),
            KV("other", Dict(<<KV("min_age", Str("a"))>>))>>),
     Dict(<<KV("min_age", Str("12")), KV("other", Dict(<<KV("first_name", IntV("1"))>>))>>),
     Dict(<<KV("email", Str("a")), KV("n", Str("abc"))>>)}

InitValidate ==
    /\ is14 = FALSE
    /\ ids = <<>>
    /\ classes \in {ValidateProgram(flat, nested_schema, class_schema) :
                        flat \in BOOLEAN, nested_schema \in {NoneV, AgeSchema},
                        class_schema \in {NoneV, AgeSchema}}
    /\ defOut = NoDef
    /\ inst = NoInstance
    /\ out = NoOut
    /\ fld = NoField
    /\ raw = NoneV
    /\ fdata = EmptyDict
    /\ fres = NoCall
    /\ rows = 0
    /\ pag = NoPaginator
    /\ pres = NoPage

\* the marshmallow_schema argument of the constructor
ValidateSchemas == {NoneV, AgeSchema, EmailSchema, IncludeSchema}

NextValidate ==
    Construct({"V"}, ValidateData, ValidateSchemas) \/ Validate

SpecValidate == InitValidate /\ [][NextValidate]_vars

\* the data source names of the fields of class c that fail on data
FailingFields(c, data) ==
    {get_data_source_name(c.fields[i]) :
        i \in {j \in 1..Len(c.fields) :
                 /\ get_field_value(c.fields[j], data) # Empty
                 /\ ~validate(c.fields[j], get_field_value(c.fields[j], data)).ok}}

\* the failing fields of the live instance, its own and those of its nested filters
AllFailing ==
    LET c == ClassOf(classes, inst.cls)
    IN  FailingFields(c, inst.data) \cup
        UNION {FailingFields(ClassOf(classes, c.nested[i].filter_class),
                             get_data(c.nested[i], inst).v) : i \in 1..Len(c.nested)}

\* no schema is configured on the instance, its class or a nested filter, and the
\* data under each nested key is a dict
TypedPathOnly ==
    LET c == ClassOf(classes, inst.cls)
    IN  /\ ~Truthy(inst.marshmallow_schema) /\ ~Truthy(c.marshmallow_schema)
        /\ \A i \in 1..Len(c.nested) :
              /\ ~Truthy(c.nested[i].marshmallow_schema)
              /\ get_data(c.nested[i], inst).ok

\* C1: without an external schema validate() validates every field and every
\* nested filter, and when any fail it raises one FilterValidationError whose
\* field_errors has an entry for every failing field, own and nested.
C1_CollectsEveryFailure ==
    (out.op = "validate" /\ TypedPathOnly) =>
        IF AllFailing = {} THEN out.res.ok
        ELSE /\ ~out.res.ok
             /\ out.res.v.s = "FilterValidationError"
             /\ {out.res.v.a[i].a[1].s : i \in 1..Len(out.res.v.a)} = AllFailing

\* the mapping of each present field's data source name to its raw value, merged
\* with the raw data of nested filters i..n
RECURSIVE PresentValues(_, _, _)
PresentValues(fields, data, i) ==
    IF i = 0 THEN EmptyDict
    ELSE LET rest == PresentValues(fields, data, i - 1)
             key == get_data_source_name(fields[i])
         IN  IF key \in DictKeys(data) THEN DictSet(rest, key, DictGet(data, key, NoneV))
             ELSE rest

RECURSIVE MergedWithNested(_, _, _)
MergedWithNested(nested, values, i) ==
    IF i > Len(nested) THEN values
    ELSE MergedWithNested(nested, DictUpdate(values, get_data(nested[i], inst).v), i + 1)

\* C8: with a schema configured on the instance or, failing that, on the class,
\* validate() only loads that schema, with the present fields' raw values merged
\* with each nested filter's raw data: no typed validator runs, a schema failure is
\* raised as it is and leaves validated false, success sets validated true.  (When a
\* nested filter's raw data cannot be extracted, the ValueError of get_data is raised
\* before the schema is loaded.)
C8_SchemaOnly ==
    LET c == ClassOf(classes, inst.cls)
        schema == IF Truthy(inst.marshmallow_schema) THEN inst.marshmallow_schema
                  ELSE c.marshmallow_schema
        mapping == MergedWithNested(c.nested, PresentValues(c.fields, inst.data, Len(c.fields)), 1)
    IN  (out.op = "validate" /\ Truthy(schema)) =>
            /\ inst.validated_data = EmptyDict
            /\ inst.validated <=> out.res.ok
            /\ IF \E i \in 1..Len(c.nested) : ~get_data(c.nested[i], inst).ok
               THEN out.loaded = NoneV /\ ~out.res.ok /\ out.res.v.s = "ValueError"
               ELSE /\ out.loaded = mapping
                    /\ out.res.ok <=> SchemaLoad(schema, mapping).ok
                    /\ ~out.res.ok => out.res = SchemaLoad(schema, mapping)

\* the class's schema is used (none on the instance) and accepts the nested data;
\* the field age is present and no validated value was stored
C8_Witness ==
    /\ out.op = "validate" /\ out.res.ok /\ inst.validated
    /\ ~Truthy(inst.marshmallow_schema)
    /\ ClassOf(classes, inst.cls).marshmallow_schema = AgeSchema
    /\ out.loaded = Dict(<<KV("min_age", Str("20"))>>)
    /\ inst.data = Dict(<<KV("n", Dict(<<KV("min_age", Str("20"))>>))>>)

C10_Step ==
    /\ out'.op = "new" => ~inst'.validated
    /\ (out'.op = "validate" /\ out'.res.ok) => inst'.validated
    /\ (out'.op = "validate" /\ ~out'.res.ok) => inst'.validated = inst.validated

\* C10: validated is false after construction, true after a validate() that
\* returns, and a validate() that raises leaves it as it was.
C10_ValidatedFlag == [][C10_Step]_vars

\* validate() returned on the typed path and the flag is set
C10_Witness ==
    /\ out.op = "validate" /\ out.res.ok /\ inst.validated
    /\ ~Truthy(inst.marshmallow_schema)
    /\ ~Truthy(ClassOf(classes, inst.cls).marshmallow_schema)
    /\ inst.validated_data = Dict(<<KV("email", Str("a@b.c")), KV("age", IntV("1"))>>)

----------------------------------------------------------------------------
(* The Paginator over a query with a fixed number of rows *)

MaxRows == 4
MaxPage == 3
MaxSize == 3

\* the page and page_size arguments: missing (None) or an integer
PageArgs == {<<>>} \cup {<<p>> : p \in (0 - MaxPage)..MaxPage}
SizeArgs == {<<>>} \cup {<<z>> : z \in (0 - 1)..MaxSize}

InitPaginator ==
    /\ is14 = FALSE
    /\ ids = <<>>
    /\ classes = RootClasses
    /\ defOut = NoDef
    /\ inst = NoInstance
    /\ out = NoOut
    /\ fld = NoField
    /\ raw = NoneV
    /\ fdata = EmptyDict
    /\ fres = NoCall
    /\ rows \in 0..MaxRows
    /\ pag = NoPaginator
    /\ pres = NoPage

\* Paginator(query, page, page_size)
NewPaginator ==
    /\ \E page \in PageArgs, page_size \in SizeArgs :
        \E p \in {Paginator_init(0, NewQuery, rows, page, page_size)} :
            /\ pag' = p
            /\ pres' = [NoPage EXCEPT !.op = "new", !.args = <<page, page_size>>,
                                      !.recv = p, !.ret = p]
    /\ UNCHANGED <<ids, is14, classes, defOut, inst, out, fld, raw, fdata, fres, rows>>

\* paginator = paginator.next_page()
NextPage ==
    /\ pag.page # 0
    /\ \E p \in {next_page(pag, rows)} :
        /\ pag' = p
        /\ pres' = [NoPage EXCEPT !.op = "next_page", !.args = pres.args,
                                  !.before = pag, !.recv = pag, !.ret = p]
    /\ UNCHANGED <<ids, is14, classes, defOut, inst, out, fld, raw, fdata, fres, rows>>

\* paginator = paginator.previous_page()
PreviousPage ==
    /\ pag.page # 0
    /\ \E p \in {previous_page(pag, rows)} :
        /\ pag' = p
        /\ pres' = [NoPage EXCEPT !.op = "previous_page", !.args = pres.args,
                                  !.before = pag, !.recv = pag, !.ret = p]
    /\ UNCHANGED <<ids, is14, classes, defOut, inst, out, fld, raw, fdata, fres, rows>>

\* paginator.get_sliced_query()
GetSlicedQuery ==
    /\ pag.page # 0
    /\ pres' = [NoPage EXCEPT !.op = "get_sliced_query", !.args = pres.args,
                              !.before = pag, !.recv = pag, !.ret = pag,
                              !.query = get_sliced_query(pag)]
    /\ UNCHANGED <<ids, is14, classes, defOut, inst, out, fld, raw, fdata, fres, rows, pag>>

\* paginator.get_objects(), against a strict or a lenient database
GetObjects ==
    /\ pag.page # 0
    /\ \E strict \in BOOLEAN :
        \E r \in {get_objects(pag, rows, strict)} :
            pres' = [NoPage EXCEPT !.op = "get_objects", !.args = pres.args,
                                   !.before = pag, !.recv = pag, !.ret = pag,
                                   !.query = get_sliced_query(pag),
                                   !.objects = r.objects, !.exc = r.exc]
    /\ UNCHANGED <<ids, is14, classes, defOut, inst, out, fld, raw, fdata, fres, rows, pag>>

NextPaginator == NewPaginator \/ NextPage \/ PreviousPage \/ GetSlicedQuery \/ GetObjects

SpecPaginator == InitPaginator /\ [][NextPaginator]_vars

----------------------------------------------------------------------------
(* Operators on their own: cls(sql_expression, params) *)

\* BaseOperator and the operator classes of operators.py
OperatorClasses ==
    {"BaseOperator", "IsOperator", "IsNotOperator", "IsEmptyOperator",
     "IsNotEmptyOperator", INOperator, EqualsOperator, RangeOperator, "LTEOperator",
     "LTOperator", "GTEOperator", GTOperator, AndOperator, OrOperator, ContainsOperator,
     IContainsOperator, "StartsWithOperator", "IStartsWithOperator", "EndsWithOperator",
     "IEndsWithOperator"}

\* text("1 = 1"), a TextClause that is not the placeholder
TextOneIsOne == Atom("text", "1 = 1")
\* column("a").is_(None), a structured expression
AIsNone == Term("op", "is_", <<column("a"), NoneV>>)
\* the operands operators are combined over: the placeholder, another TextClause
\* and a structured expression
Operands == {empty_sql, TextOneIsOne, AIsNone}

\* the longest params list
MaxParams == 3
ParamLists == {PyList([i \in 1..n |-> IntV("1")]) : n \in 0..MaxParams}
\* what else is passed as params
ParamValues ==
    ParamLists \cup {NoneV, Str("A"), Str(""), IntV("1"), IntV("0"), Term("tuple", "", <<>>),
                     Term("tuple", "", <<IntV("0"), IntV("1")>>), EmptyDict,
                     Dict(<<KV("a", IntV("1"))>>)}
                \cup {PyList(<<e>>) : e \in Operands \cup {NoneV}}
SqlExpressions == {Str("A"), column("my_column")} \cup Operands

InitOperators ==
    /\ is14 \in BOOLEAN
    /\ ids = <<>>
    /\ classes = RootClasses
    /\ defOut = NoDef
    /\ inst = NoInstance
    /\ out = NoOut
    /\ fld = NoField
    /\ raw = NoneV
    /\ fdata = EmptyDict
    /\ fres = NoCall
    /\ rows = 0
    /\ pag = NoPaginator
    /\ pres = NoPage

\* cls(sql_expression=sql_expression, params=params)
OperatorNew ==
    /\ \E cls \in OperatorClasses, sql_expression \in SqlExpressions, params \in ParamValues :
        /\ raw' = params
        /\ fres' = [op |-> "operator", res |-> OperatorInit(cls, sql_expression, params),
                    ops |-> <<Term("new", cls, <<sql_expression>>)>>]
    /\ UNCHANGED <<ids, is14, classes, defOut, inst, out, fld, fdata, rows, pag, pres>>

\* the operator just constructed
Constructed == fres.res.v

\* operator.to_sql() on the operator just constructed
OperatorToSql ==
    /\ fres.op = "operator" /\ fres.res.ok
    /\ fres' = [op |-> "to_sql", res |-> to_sql(Constructed), ops |-> <<Constructed>>]
    /\ UNCHANGED <<ids, is14, classes, defOut, inst, out, fld, raw, fdata, rows, pag, pres>>

\* one operator per run
ConstructOperator == fres.op = "" /\ OperatorNew

NextOperators == ConstructOperator \/ OperatorToSql

SpecOperators == InitOperators /\ [][NextOperators]_vars

\* C20: constructing any operator fails with InvalidParamError unless the params
\* it is given is a list, and constructing a RangeOperator fails with
\* InvalidParamError stating the required count unless params has exactly 2
\* elements.
C20_ParamsMustBeList ==
    fres.op = "operator" =>
        /\ (raw # NoneV /\ raw.t # "list") =>
                ~fres.res.ok /\ fres.res.v.s = "InvalidParamError"
        /\ (fres.ops[1].s = RangeOperator /\ (raw.t # "list" \/ Len(raw.a) # 2)) =>
                ~fres.res.ok /\ fres.res.v.s = "InvalidParamError"
        /\ (fres.ops[1].s = RangeOperator /\ raw.t = "list" /\ Len(raw.a) # 2) =>
                fres.res.v.a = <<Str("should have exactly 2 values")>>

----------------------------------------------------------------------------
(* A method field on its own: apply_filter(filter_obj) on an object with members *)

\* what the attribute filter_m of the filter object may be; absent when the
\* object has no such attribute
MemberValues ==
    {NoneV, IntV("0"), IntV("1"), Str(""), Str("not_callable"), PyList(<<>>),
     Method("filter_m", "expr"), Method("filter_m", "None")}
\* the class of the filter object: only its members matter
ObjectClass(members) ==
    [NoClass EXCEPT !.name = "Obj", !.abstract = FALSE, !.members = members]
ObjectClasses ==
    {<<ObjectClass(EmptyDict)>>}
        \cup {<<ObjectClass(Dict(<<KV("filter_m", v)>>))>> : v \in MemberValues}

\* field = MethodField(method=..., data_source_name=...); field.__set_name__(None, "m")
MethodFields ==
    {set_name(NewMethodField(method, dsn), "", "m") :
        method \in {Str("filter_m"), Str("other"), Function("func", "expr"),
                    Function("func", "None")},
        dsn \in {"", "src"}}

MethodValues == {NoneV, Str("test"), Str(""), IntV("0"), PyList(<<IntV("1")>>)}

InitMethod ==
    /\ is14 \in BOOLEAN
    /\ ids = <<>>
    /\ classes \in ObjectClasses
    /\ defOut = NoDef
    /\ inst = NoInstance
    /\ out = NoOut
    /\ fld \in MethodFields
    /\ raw \in MethodValues
    /\ fdata \in {EmptyDict, Dict(<<KV("m", raw)>>), Dict(<<KV("src", raw)>>)}
    /\ fres = NoCall
    /\ rows = 0
    /\ pag = NoPaginator
    /\ pres = NoPage

\* field.extract_method(filter_obj)
MethodExtract ==
    /\ fres' = [op |-> "extract_method", res |-> extract_method(fld, ClassOf(classes, "Obj")),
                ops |-> <<>>]
    /\ UNCHANGED <<ids, is14, classes, defOut, inst, out, fld, raw, fdata, rows, pag, pres>>

\* field.apply_filter(filter_obj) with filter_obj.data = fdata
MethodApplyFilter ==
    /\ \E r \in {apply_filter(fld, [NoInstance EXCEPT !.cls = "Obj", !.data = fdata],
                              ClassOf(classes, "Obj"))} :
        fres' = [op |-> "apply_filter", res |-> r.res, ops |-> r.ops]
    /\ UNCHANGED <<ids, is14, classes, defOut, inst, out, fld, raw, fdata, rows, pag, pres>>

NextMethod == MethodExtract \/ MethodApplyFilter

SpecMethod == InitMethod /\ [][NextMethod]_vars

\* C19: a method field given a value keeps its three failures apart: the named
\* attribute absent from the filter (or None) raises AttributeError, an attribute
\* that exists and is not callable raises FieldMethodNotFound, a callable
\* returning None raises ValueError; with the raw value absent or None the callable
\* is not invoked and the literal-true placeholder is returned; otherwise the
\* callable is invoked exactly once with the raw value.
C19_MethodFieldFailures ==
    fres.op = "apply_filter" =>
        LET key == IF fld.data_source_name = "" THEN fld.public_name
                   ELSE fld.data_source_name
            members == ClassOf(classes, "Obj").members
            named == fld.method.t = "str"
            exists == named /\ fld.method.s \in DictKeys(members)
                        /\ DictGet(members, fld.method.s, NoneV) # NoneV
            callee == IF named THEN DictGet(members, fld.method.s, NoneV) ELSE fld.method
            callable == (~named \/ exists) /\ callee.t \in {"method", "function"}
        IN  IF key \notin DictKeys(fdata) \/ raw = NoneV
            THEN fres.res = Ok(empty_sql) /\ fres.ops = <<>>
            ELSE /\ (named /\ ~exists) =>
                        ~fres.res.ok /\ fres.res.v.s = "AttributeError" /\ fres.ops = <<>>
                 /\ (exists /\ ~callable) =>
                        ~fres.res.ok /\ fres.res.v.s = "FieldMethodNotFound"
                            /\ fres.ops = <<>>
                 /\ callable =>
                        /\ fres.ops = <<Term("call", callee.s, <<raw>>)>>
                        /\ IF callee.a[1].s = "None"
                           THEN ~fres.res.ok /\ fres.res.v.s = "ValueError"
                           ELSE fres.res.ok /\ ~is_none(fres.res.v)

----------------------------------------------------------------------------
(* Ordering and pagination of a filter: order_by(), apply(), paginate() *)

\* the longest order_by text of the exhaustive part of the data
MaxText == 4

\* the characters of the order_by texts: they spell the column id of User,
\* the descending mark, the separator and a blank
Chars == {Chr("i"), Chr("d"), Chr("-"), Chr(","), Chr(" ")}
Texts(n) == UNION {[1..k -> Chars] : k \in 0..n}
Spell(letters) == Text([i \in 1..Len(letters) |-> Chr(letters[i])])

BirthDateDesc == UnaryExpression("desc", Column("User", "birth_date"))

\* longer texts with two and three resolving tokens
LongTexts ==
    {Spell(<<"i", "d", ",", "-", "i", "d">>),
     Spell(<<"-", "i", "d", " ", ",", " ", "i", "d">>),
     Spell(<<" ", "-", "i", "d", ",", ",", "i", "d", ",", " ">>),
     Spell(<<"i", "d", ",", "d", "i">>)}

\* the elements of the list and tuple specifications
OrderElements ==
    {Spell(<<"i", "d">>), Spell(<<"-", "i", "d">>), Spell(<<" ", "i", "d", " ">>),
     Spell(<<>>), Spell(<<"d">>), Spell(<<"-", "-", "i", "d">>), IntV("1"), NoneV,
     BirthDateDesc}
OrderLists ==
    {PyList(<<>>)} \cup {PyList(<<a>>) : a \in OrderElements}
        \cup {PyList(<<a, b>>) : a \in OrderElements, b \in OrderElements}
        \cup {Term("tuple", "", <<a, b>>) : a \in OrderElements, b \in OrderElements}

\* the order specifications of the input and of Meta.order_by
OrderSpecs ==
    {Text(chars) : chars \in Texts(MaxText)} \cup LongTexts \cup OrderLists
        \cup {NoneV, IntV("1"), BirthDateDesc}

PageValues == {NoneV, IntV("-1"), IntV("0"), IntV("1"), IntV("2"), Str("2"), Str("a"),
               Str(""), FloatV("1.1")}
PageSizeValues == PageValues \cup {IntV("12"), PyList(<<>>), PyList(<<IntV("1")>>)}
PageData ==
    {Dict(page \o page_size) :
        page \in {<<>>} \cup {<<KV("page", v)>> : v \in PageValues},
        page_size \in {<<>>} \cup {<<KV("page_size", v)>> : v \in PageSizeValues}}

QueryData ==
    PageData \cup {Dict(<<KV("order_by", ordering)>>) : ordering \in OrderSpecs}
        \cup {Dict(<<KV("order_by", Spell(<<"-", "i", "d">>)), KV("page", IntV("2")),
                     KV("page_size", IntV("2"))>>)}

\* class Q(Filter) over User
QBody(meta, decls) ==
    [abstract |-> FALSE, Meta |-> meta, members |-> EmptyDict, decls |-> decls]
QueryProgram(ordering, page_size, decls) ==
    FilterType_new(RootClasses, "Q", "Filter",
                   QBody(MetaWith(MetaOf("User", <<>>, NoneV), ordering, page_size),
                         decls)).v

\* Q over Article with two fields across the relationship Article.user, as
\* tests/filters.py ArticleMultipleFKFilter
ArticleProgram ==
    FilterType_new(RootClasses, "Q", "Filter",
        QBody(MetaOf("Article", <<>>, NoneV),
              <<WithD(FieldDecl("author_first_name",
                                NewField("Field", <<"user", "first_name">>, ContainsOperator,
                                         NoneV, "", FALSE, FALSE))),
                WithD(FieldDecl("author_email",
                                NewField("Field", <<"user", "email">>, ContainsOperator,
                                         NoneV, "", FALSE, FALSE)))>>)).v

\* Q without a field under four Metas, Q over Article, and Q as tests/filters.py
\* PaginateAndOrderFilter: first_name = Field(lookup_operator=ContainsOperator)
QueryPrograms ==
    {QueryProgram(NoneV, NoneV, <<>>),
     QueryProgram(BirthDateDesc, IntV("1"), <<>>),
     QueryProgram(Spell(<<"-", "i", "d">>), IntV("0"), <<>>),
     QueryProgram(PyList(<<Spell(<<"d">>), Spell(<<"i", "d">>)>>), Str("2"), <<>>),
     QueryProgram(BirthDateDesc, IntV("1"),
                  <<WithD(FieldDecl("first_name", PlainField("Field", ContainsOperator)))>>),
     ArticleProgram}

InitQuery ==
    /\ is14 \in BOOLEAN
    /\ ids = <<>>
    /\ classes \in QueryPrograms
    /\ defOut = NoDef
    /\ inst = NoInstance
    /\ out = NoOut
    /\ fld = NoField
    /\ raw = NoneV
    /\ fdata = EmptyDict
    /\ fres = NoCall
    /\ rows = MaxRows
    /\ pag = NoPaginator
    /\ pres = NoPage

\* filter_obj.order_by(filter_obj.query)
OrderBy ==
    /\ inst.cls # ""
    /\ \E r \in {order_by(ClassOf(classes, inst.cls), inst, NewQuery)} :
        /\ out' = [NoOut EXCEPT !.op = "order_by", !.res = IF r.ok THEN ReturnsQuery ELSE r]
        /\ pres' = [NoPage EXCEPT !.op = "order_by",
                                  !.query = IF r.ok THEN r.v ELSE NewQuery]
    /\ UNCHANGED <<ids, is14, classes, defOut, inst, fld, raw, fdata, fres, rows, pag>>

\* filter_obj.apply()
Apply ==
    /\ inst.cls # ""
    /\ \E r \in {apply(classes, inst)} :
        /\ inst' = r.obj
        /\ out' = [NoOut EXCEPT !.op = "apply", !.res = r.res]
        /\ pres' = [NoPage EXCEPT !.op = "apply", !.query = r.query]
    /\ UNCHANGED <<ids, is14, classes, defOut, fld, raw, fdata, fres, rows, pag>>

\* filter_obj.paginate()
Paginate ==
    /\ inst.cls # ""
    /\ \E r \in {paginate(classes, inst, rows)} :
        /\ inst' = r.obj
        /\ out' = [NoOut EXCEPT !.op = "paginate", !.res = r.res]
        /\ pag' = r.paginator
        /\ pres' = [NoPage EXCEPT !.op = "paginate", !.args = r.args,
                                  !.recv = r.paginator, !.ret = r.paginator,
                                  !.query = r.paginator.query]
    /\ UNCHANGED <<ids, is14, classes, defOut, fld, raw, fdata, fres, rows>>

\* one filter object per run: Q(data=data, operator=operator)
ConstructQuery == inst.cls = "" /\ Construct({"Q"}, QueryData, {NoneV})

NextQuery == ConstructQuery \/ OrderBy \/ Apply \/ Paginate

SpecQuery == InitQuery /\ [][NextQuery]_vars

\* C11: next_page() returns a new Paginator at page p+1 with the same page size
\* when p < num_pages and the receiver itself otherwise; previous_page() returns a
\* new Paginator at page p-1 with the same page size when p > 1 and the receiver
\* itself otherwise; the receiver is left as it was.
C11_Navigation ==
    /\ pres.op = "next_page" =>
        /\ pres.recv = pres.before
        /\ IF pres.before.page < pres.before.num_pages
           THEN /\ pres.ret.id # pres.before.id
                /\ pres.ret.page = pres.before.page + 1
                /\ pres.ret.page_size = pres.before.page_size
           ELSE pres.ret = pres.before
    /\ pres.op = "previous_page" =>
        /\ pres.recv = pres.before
        /\ IF pres.before.page > 1
           THEN /\ pres.ret.id # pres.before.id
                /\ pres.ret.page = pres.before.page - 1
                /\ pres.ret.page_size = pres.before.page_size
           ELSE pres.ret = pres.before

\* k is the ceiling of c / z, for z # 0
IsCeiling(k, c, z) ==
    IF z > 0 THEN k * z >= c /\ (k - 1) * z < c
    ELSE k * z <= c /\ (k - 1) * z > c

\* C12: for every row count and every requested page size, num_pages is the
\* ceiling of count / effective page size, and it is never less than 1.
C12_NumPages ==
    pres.op = "new" =>
        /\ pag.page_size # 0 => IsCeiling(pag.num_pages, pag.count, pag.page_size)
        /\ pag.num_pages >= 1

\* C13: for every requested page (missing, zero and negative included) and every
\* page size, the current page is at least 1, and it is 1 whenever the effective
\* page size equals the row count.
C13_PageAtLeastOne ==
    pres.op = "new" =>
        /\ pag.page >= 1
        /\ pag.page_size = pag.count => pag.page = 1

\* C14: a Paginator constructed with page_size 0 over N rows, whatever the page
\* asked for, has page 1, page_size N and num_pages 1, has no next and no previous
\* page, next_page() and previous_page() return the receiver itself, and
\* get_objects() returns all N rows.
C14_UnlimitedSize ==
    (pres.op # "" /\ pres.args[2] = <<0>>) =>
        /\ pag.page = 1 /\ pag.page_size = rows /\ pag.num_pages = 1
        /\ ~has_next_page(pag) /\ ~has_previous_page(pag)
        /\ pres.op \in {"next_page", "previous_page"} =>
              pres.ret = pres.before /\ pres.recv = pres.before
        /\ pres.op = "get_objects" => pres.exc = "" /\ pres.objects = AllRows(rows)

C14_Witness ==
    /\ pres.op = "get_objects" /\ pres.args = <<<<3>>, <<0>>>>
    /\ rows = MaxRows /\ pres.objects = AllRows(rows) /\ pag.page = 1

\* the rows at the 0-based indexes from up to but excluding to
RowsAt(from, to) == [i \in 1..(IF to > from THEN to - from ELSE 0) |-> from + i]

\* the rows of the pages k..num_pages of a query of n rows sliced by s
RECURSIVE PagesFrom(_, _, _, _)
PagesFrom(k, n, s, strict) ==
    IF k > Paginator_init(0, NewQuery, n, <<k>>, <<s>>).num_pages THEN <<>>
    ELSE get_objects(Paginator_init(0, NewQuery, n, <<k>>, <<s>>), n, strict).objects
            \o PagesFrom(k + 1, n, s, strict)

\* C15: get_sliced_query() sets limit = page_size and offset = (page-1)*page_size;
\* over N ordered rows and page size s > 0, page k returns the rows at indexes
\* (k-1)*s up to but excluding min(k*s, N), the pages 1..num_pages together return
\* every row once, and a page greater than num_pages returns no rows.
C15_Slice ==
    (pres.op \in {"get_sliced_query", "get_objects"}
        /\ pres.before.page_size > 0 /\ pres.before.page >= 1) =>
        LET s == pres.before.page_size
            k == pres.before.page
        IN  /\ pres.query.limit = <<s>>
            /\ pres.query.offset = <<(k - 1) * s>>
            /\ pres.op = "get_objects" =>
                /\ pres.exc = ""
                /\ pres.objects = RowsAt((k - 1) * s, IF k * s < rows THEN k * s ELSE rows)
                /\ k > pres.before.num_pages => pres.objects = <<>>
                /\ \A strict \in BOOLEAN : PagesFrom(1, rows, s, strict) = AllRows(rows)

C15_Witness ==
    /\ pres.op = "get_objects" /\ rows = MaxRows
    /\ pres.before.page_size = MaxSize /\ pres.before.page = 2
    /\ pres.objects = <<MaxRows>>

\* the number a page or page size value stands for
NumberOf(v) == IntOf(PyInt(v).v)
AtLeast(least, n) == IF n < least THEN least ELSE n

\* what paginate() gave the Paginator, when supplied(v) tells the values that
\* count as supplied: page_size from the input, else from Meta.page_size, else 0;
\* page from the input, else 1; page at least 1 and page_size at least 0
PaginateArguments(supplied(_), data, meta) ==
    LET size == DictGet(data, "page_size", NoneV)
        page == DictGet(data, "page", NoneV)
        from == IF supplied(size) THEN size
                ELSE IF supplied(meta.page_size) THEN meta.page_size ELSE IntV("0")
    IN  /\ PyInt(from).ok => pres.args[2] = <<AtLeast(0, NumberOf(from))>>
        /\ (supplied(page) /\ PyInt(page).ok) => pres.args[1] = <<AtLeast(1, NumberOf(page))>>
        /\ ~supplied(page) => pres.args[1] = <<1>>
        /\ pres.args[1][1] >= 1 /\ pres.args[2][1] >= 0
        /\ pag = Paginator_init(0, pag.query, rows, pres.args[1], pres.args[2])

IsGiven(v) == ~is_none(v)

CommasOf(chars) == {i \in 1..Len(chars) : chars[i] = Chr(",")}
PieceStarts(chars) == {1} \cup {i + 1 : i \in CommasOf(chars)}
PieceFrom(chars, start) ==
    SubSeq(chars, start,
           IF \E i \in CommasOf(chars) : i >= start
           THEN (CHOOSE i \in CommasOf(chars) :
                    i >= start /\ \A k \in CommasOf(chars) : k >= start => i <= k) - 1
           ELSE Len(chars))
\* a piece without the blanks around it
NonBlanks(piece) == {i \in 1..Len(piece) : piece[i] # Chr(" ")}
Trimmed(piece) ==
    IF NonBlanks(piece) = {} THEN <<>>
    ELSE SubSeq(piece, CHOOSE i \in NonBlanks(piece) : \A k \in NonBlanks(piece) : i <= k,
                       CHOOSE i \in NonBlanks(piece) : \A k \in NonBlanks(piece) : i >= k)
\* the tokens of a text in order: its trimmed non-blank pieces
RECURSIVE TokensFrom(_, _)
TokensFrom(chars, start) ==
    IF start > Len(chars) + 1 \/ start \notin PieceStarts(chars) THEN <<>>
    ELSE (IF Trimmed(PieceFrom(chars, start)) = <<>> THEN <<>>
          ELSE <<Trimmed(PieceFrom(chars, start))>>)
         \o TokensFrom(chars, start + Len(PieceFrom(chars, start)) + 1)
\* the tokens of a specification: of a text, or the trimmed texts of a list or tuple
TokensOf(ordering) ==
    IF ordering.t = "str" THEN TokensFrom(ordering.a, 1)
    ELSE [i \in 1..Len(ordering.a) |-> IF ordering.a[i].t = "str"
                                       THEN Trimmed(ordering.a[i].a)
                                       ELSE <<ordering.a[i]>>]
\* the name of a token: the token without its optional single leading '-'
NameOfToken(token) == IF token # <<>> /\ token[1] = Chr("-") THEN Tail(token) ELSE token
IsDescending(token) == token # <<>> /\ token[1] = Chr("-")
IsOrdering(token) == Len(token) = 1 /\ token[1].t = "unary"
NamesAttribute(model, token) ==
    NameOfToken(token) = <<Chr("i"), Chr("d")>> /\ hasattr_model(model, "id")
\* the ordering expression a token stands for
Resolved(model, token) ==
    IF IsOrdering(token) THEN token[1]
    ELSE UnaryExpression(IF IsDescending(token) THEN "desc" ELSE "asc",
                         Column(model, "id"))
\* the specification order_by() works from
OrderingOf(data, meta) ==
    IF "order_by" \in DictKeys(data) THEN DictGet(data, "order_by", NoneV) ELSE meta.order_by
IsTokenList(ordering) == ordering.t \in {"str", "list", "tuple"}

\* C17: order_by(query) takes the specification from the input key order_by when
\* present and from the class default otherwise; the tokens of a string between
\* commas, trimmed, and the elements of a list resolve to the attribute they name,
\* descending with a leading '-' and ascending otherwise; blank tokens are dropped;
\* ordering expressions pass through unchanged; the resolved expressions are
\* applied in token order, and when none remain the query is returned unordered.
C17_OrderBy ==
    out.op = "order_by" =>
        LET model == ClassOf(classes, inst.cls).Meta.model
            ordering == OrderingOf(inst.data, ClassOf(classes, inst.cls).Meta)
        IN  /\ (is_none(ordering) \/ ordering.t = "int") =>
                  out.res = ReturnsQuery /\ pres.query = NewQuery
            /\ ordering.t = "unary" =>
                  out.res = ReturnsQuery
                    /\ pres.query = [NewQuery EXCEPT !.order_by = <<ordering>>]
            /\ (IsTokenList(ordering)
                  /\ \A i \in 1..Len(TokensOf(ordering)) :
                        \/ IsOrdering(TokensOf(ordering)[i])
                        \/ NamesAttribute(model, TokensOf(ordering)[i])) =>
                  /\ out.res = ReturnsQuery
                  /\ pres.query =
                        [NewQuery EXCEPT !.order_by =
                            [i \in 1..Len(TokensOf(ordering)) |->
                                Resolved(model, TokensOf(ordering)[i])]]

\* the input " -id,,id, " overrides the class default and orders by id
\* descending, then by id ascending
C17_Witness ==
    /\ out.op = "order_by" /\ out.res = ReturnsQuery
    /\ ClassOf(classes, inst.cls).Meta.order_by = BirthDateDesc
    /\ DictGet(inst.data, "order_by", NoneV)
            = Spell(<<" ", "-", "i", "d", ",", ",", "i", "d", ",", " ">>)
    /\ pres.query.order_by = <<UnaryExpression("desc", Column("User", "id")),
                               UnaryExpression("asc", Column("User", "id"))>>

\* C18: for the tokens of a string and the elements of a list or tuple alike, a
\* token whose name, after removing the optional single leading '-', is not an
\* attribute of the model makes apply() fail with OrderByException naming the
\* model, and a specification whose tokens all name attributes never fails so.
C18_UnknownNameFails ==
    (out.op = "apply"
        /\ IsTokenList(OrderingOf(inst.data, ClassOf(classes, inst.cls).Meta))) =>
        LET model == ClassOf(classes, inst.cls).Meta.model
            tokens == TokensOf(OrderingOf(inst.data, ClassOf(classes, inst.cls).Meta))
            texts == {i \in 1..Len(tokens) : ~IsOrdering(tokens[i])
                                              /\ (tokens[i] = <<>> \/ tokens[i][1].t = "chr")}
        IN  IF \E i \in texts : ~NamesAttribute(model, tokens[i])
            THEN /\ ~out.res.ok
                 /\ out.res.v.s = "OrderByException"
                 /\ out.res.v.a[1] = Atom("model", model)
            ELSE out.res.ok \/ out.res.v.s # "OrderByException"

----------------------------------------------------------------------------
(* A nested filter on its own: get_data() and apply() on a parent instance *)

\* class P(Filter) over User whose only declaration is
\* n = NestedFilter(TypedFilter, operator=OrOperator, flat=..., data_source_name=...)
PBody(flat, data_source_name) ==
    [abstract |-> FALSE, Meta |-> MetaOf("User", <<>>, NoneV), members |-> EmptyDict,
     decls |-> <<WithD(NestedDecl("n", NewNested("TypedFilter", OrOperator, "", flat,
                                                 data_source_name, NoneV)))>>]

NestedPrograms ==
    {FilterType_new(WithTypedFilter, "P", "Filter", PBody(flat, dsn)).v :
        flat \in BOOLEAN, dsn \in {"", "src"}}

\* what the parent's input may hold under the nested filter's key
NestedEntries ==
    {NoneV, EmptyDict, Str(""), PyList(<<>>), IntV("0"), BoolV(FALSE),
     NestedData, Dict(<<KV("min_age", Str("b"))>>),
     Str("abc"), IntV("1"), PyList(<<IntV("1")>>), BoolV(TRUE)}

ParentData ==
    {EmptyDict, NestedData, Dict(<<KV("email", Str("a"))>>)}
    \cup {Dict(<<KV("n", e)>>) : e \in NestedEntries}
    \cup {Dict(<<KV("src", e)>>) : e \in NestedEntries}
    \cup {Dict(<<KV("email", Str("a")), KV("n", e)>>) : e \in {NoneV, NestedData, IntV("1")}}

InitNested ==
    /\ is14 \in BOOLEAN
    /\ ids = <<>>
    /\ classes \in NestedPrograms
    /\ defOut = NoDef
    /\ inst = NoInstance
    /\ out = NoOut
    /\ fld = NoField
    /\ raw = NoneV
    /\ fdata = EmptyDict
    /\ fres = NoCall
    /\ rows = 0
    /\ pag = NoPaginator
    /\ pres = NoPage

\* the descriptor n of class P
NestedOfP == MapGet(ClassOf(classes, "P").nested, "n")

\* P.nested["n"].get_data(parent)
NestedGetData ==
    /\ inst.cls # ""
    /\ fres' = [op |-> "get_data", res |-> get_data(NestedOfP, inst), ops |-> <<>>]
    /\ UNCHANGED <<ids, is14, classes, defOut, inst, out, fld, raw, fdata, rows, pag, pres>>

\* P.nested["n"].apply(parent)
NestedApply ==
    /\ inst.cls # ""
    /\ \E r \in {NestedFilter_apply(classes, NestedOfP, inst)} :
        fres' = [op |-> "apply", res |-> r.res, ops |-> r.ops]
    /\ UNCHANGED <<ids, is14, classes, defOut, inst, out, fld, raw, fdata, rows, pag, pres>>

\* one parent per run: P(data=data, operator=operator)
ConstructParent == inst.cls = "" /\ Construct({"P"}, ParentData, {NoneV})

NextNested == ConstructParent \/ NestedGetData \/ NestedApply

SpecNested == InitNested /\ [][NextNested]_vars

\* the values Python treats as empty: None, zero, False and the containers and
\* strings without elements
EmptyEntries == {NoneV, EmptyDict, Str(""), PyList(<<>>), IntV("0"), BoolV(FALSE)}

\* the entry of the parent's input under the nested filter's data source name
EntryOf(n) ==
    LET key == IF n.data_source_name # "" THEN n.data_source_name ELSE "n"
    IN  IF key \in DictKeys(inst.data) THEN DictGet(inst.data, key, NoneV) ELSE NoneV

\* C21: NestedFilter.apply returns the literal-true placeholder without
\* constructing the inner filter whenever the data it extracts is empty: with
\* flat=False when the parent's input has no entry or an empty entry under the
\* nested filter's data source name, with flat=True when the parent's input is
\* empty; a non-empty value that is not a dict under that key with flat=False
\* raises ValueError, again before any inner filter is constructed.
C21_NestedApplyEmpty ==
    fres.op = "apply" =>
        /\ (NestedOfP.flat /\ inst.data = EmptyDict) =>
                fres.res = Ok(empty_sql) /\ fres.ops = <<>>
        /\ (~NestedOfP.flat /\ EntryOf(NestedOfP) \in EmptyEntries) =>
                fres.res = Ok(empty_sql) /\ fres.ops = <<>>
        /\ (~NestedOfP.flat /\ EntryOf(NestedOfP) \notin EmptyEntries
              /\ EntryOf(NestedOfP).t # "dict") =>
                /\ ~fres.res.ok /\ fres.res.v.s = "ValueError"
                /\ fres.ops = <<>>
        /\ fres.ops # <<>> =>
                /\ fres.ops = built(NestedOfP, IF NestedOfP.flat THEN inst.data
                                               ELSE EntryOf(NestedOfP))
                /\ fres.ops[1].a[1] # EmptyDict

\* apply() on a parent whose input has other keys but none for the nested filter
C21_Witness ==
    /\ fres.op = "apply"
    /\ ~NestedOfP.flat
    /\ NestedOfP.data_source_name = "src"
    /\ inst.data = Dict(<<KV("email", Str("a")), KV("n", NestedData)>>)
    /\ fres.res = Ok(empty_sql)
    /\ fres.ops = <<>>

\* C22: when exactly one ordinary field remains after the allow-list is applied,
\* apply_fields returns that field's own predicate fragment with no combinator
\* applied, whatever the position of the field in the class's field map.
C22_SingleField ==
    (out.op = "apply_all" /\ out.res.ok) =>
        LET c == ClassOf(classes, inst.cls)
            fs == AllowListed(c, c.fields)
        IN  Len(fs) = 1 => out.trail[1] = Fragment(fs[1])

\* the operator to_sql() was called on, its left operand and its params
Called_operator == fres.ops[1]
Left == get_sql_expression(Called_operator)
Params == Called_operator.a[2].a

\* C23: combining two literal-true placeholders with any operator of the algebra
\* gives an expression that compares equal to a single placeholder, and when
\* exactly the left operand is a placeholder the operator is applied with the
\* operands swapped, the structured expression on the left.
C23_Placeholders ==
    (fres.op = "to_sql" /\ Len(Params) = 1 /\ Called_operator.s # "BaseOperator") =>
        /\ (Left = empty_sql /\ Params[1] = empty_sql) => fres.res = Ok(empty_sql)
        /\ (Left = empty_sql /\ Params[1] = AIsNone) =>
                fres.res = Ok(Term("op", sql_operator(Called_operator.s),
                                   <<AIsNone, empty_sql>>))

\* the same under SQLAlchemy 1.4, where to_sql is wrapped by sa_1_4_compatible
C23_PlaceholdersOn14 == is14 => C23_Placeholders

\* AndOperator(empty_sql(), [column("a").is_(None)]).to_sql() under 1.4
C23_Witness ==
    /\ is14
    /\ fres.op = "to_sql"
    /\ Called_operator.s = AndOperator
    /\ Left = empty_sql /\ Params = <<AIsNone>>
    /\ fres.res = Ok(Term("op", "and_", <<AIsNone, empty_sql>>))

\* C26: IsEmptyOperator and IsNotEmptyOperator are pre-bound to null: however they
\* are constructed, with no params or with params supplied by a field, to_sql()
\* compares the operand against NULL (IS NULL, IS NOT NULL).
C26_PreBoundNull ==
    (fres.op = "to_sql" /\ Called_operator.s \in {"IsEmptyOperator", "IsNotEmptyOperator"}) =>
        fres.res = Ok(Term("op", IF Called_operator.s = "IsEmptyOperator" THEN "is_" ELSE "isnot",
                           <<Left, NoneV>>))

----------------------------------------------------------------------------
(* Descriptor objects: which object each map entry of each class holds, class *)
(* statements that copy them, and assignments to their attributes            *)

\* the three maps of a filter class
MapKinds == {"fields", "nested", "method_fields"}
DeclKind(kind) ==
    CASE kind = "fields" -> "field" [] kind = "nested" -> "nested" [] OTHER -> "method"

\* a map with the object each entry holds
Tagged(m, refs) ==
    [i \in 1..Len(m) |-> [public_name |-> m[i].public_name, id |-> refs[i]]]

\* the objects a class body creates: one per declaration
BodyIds(own, name) == [i \in 1..Len(own) |-> <<name, "body", own[i].public_name>>]

\* {**_class.fields, **fields}: a new dict holding the same objects
merged_ids(base, baseIds, own, name) ==
    LET t == MapMerge(Tagged(base, baseIds), Tagged(own, BodyIds(own, name)))
    IN  [i \in 1..Len(t) |-> t[i].id]

\* copy.copy in place of deepcopy: the new map holds the objects it was given
deepcopy_same_objects(refs, name, kind) == refs

\* deepcopy(d): __deepcopy__ of BaseField, MethodField and NestedFilter makes a
\* new object for every value of the dict
deepcopy(refs, name, kind) == [i \in 1..Len(refs) |-> <<name, kind, i>>]

\* create_missing_fields: cls.fields[field_name] = field_obj, new objects after
\* the copied ones
with_created(refs, name, n) ==
    refs \o [i \in 1..(n - Len(refs)) |-> <<name, "created", i>>]

\* the objects in one map of the new class c after FilterType.__new__
ids_of_kind(cs, idsOf, c, kind) ==
    LET b == IF c.base = "" THEN NoClass ELSE ClassOf(cs, c.base)
        bIds == IF c.base = "" THEN <<>>
                ELSE idsOf[CHOOSE i \in 1..Len(cs) : cs[i].name = c.base][kind]
        own == OwnOfKind(c.decls, DeclKind(kind), c.name, 1)
    IN  with_created(deepcopy(merged_ids(b[kind], bIds, own, c.name), c.name, kind),
                     c.name, Len(c[kind]))

\* the objects in the three maps of the new class c
FilterType_ids(cs, idsOf, c) ==
    [kind \in MapKinds |-> ids_of_kind(cs, idsOf, c, kind)]

\* the objects of BaseFilter's and TypedFilter's maps
RootIds(cs) ==
    [i \in 1..Len(cs) |->
        [kind \in MapKinds |-> [j \in 1..Len(cs[i][kind]) |-> <<cs[i].name, kind, j>>]]]

\* one map of class d once the objects of class c are in the state post_init and
\* create_missing_fields left them in: an entry holding an object of c shows it
seen_through(m, refs, cm, crefs) ==
    [j \in 1..Len(m) |->
        IF \E i \in 1..Len(cm) : crefs[i] = refs[j]
        THEN cm[CHOOSE i \in 1..Len(cm) : crefs[i] = refs[j]]
        ELSE m[j]]

\* the classes defined before c, after the statement that defined c
after_definition(cs, idsOf, c, cIds) ==
    [d \in 1..Len(cs) |->
        [cs[d] EXCEPT
            !.fields = seen_through(@, idsOf[d]["fields"], c.fields, cIds["fields"]),
            !.nested = seen_through(@, idsOf[d]["nested"], c.nested, cIds["nested"]),
            !.method_fields = seen_through(@, idsOf[d]["method_fields"], c.method_fields,
                                           cIds["method_fields"])]]

\* setattr(obj, attr, value) on the object id: every map entry holding it shows it
assigned_in(m, refs, id, attr, value) ==
    [j \in 1..Len(m) |-> IF refs[j] = id THEN [m[j] EXCEPT ![attr] = value] ELSE m[j]]

setattr(cs, idsOf, kind, id, attr, value) ==
    [d \in 1..Len(cs) |->
        [cs[d] EXCEPT ![kind] = assigned_in(@, idsOf[d][kind], id, attr, value)]]

\* at most this many classes are defined below TypedFilter
MaxClasses == 2
\* an assignment is made while fewer than this many entries hold an assigned value
MaxWrites == 1

FrameNames == <<"F1", "F2", "F3", "F4">>

\* the declarations of a class body: a field, a nested filter and a method field
FullDecls ==
    <<FieldDecl("email", PlainField("StringField", ContainsOperator)),
      NestedDecl("n", NewNested("TypedFilter", AndOperator, "", TRUE, "", NoneV)),
      MethodDecl("m", NewMethodField(Str("filter_m"), ""))>>

FrameBody(ab, meta, decls) ==
    [abstract |-> ab, Meta |-> meta, decls |-> decls, members |-> ClassMembers]

\* class bodies: concrete and abstract with the three declarations; no declaration
\* but an allow-list naming a column no descriptor is declared for; a field
\* redeclared with another type, and as a method field
FrameBodies ==
    {FrameBody(FALSE, MetaOf("User", <<>>, NoneV), FullDecls),
     FrameBody(TRUE, NoMeta, FullDecls),
     FrameBody(FALSE, MetaOf("User", <<"age">>, NoneV), <<>>),
     FrameBody(TRUE, NoMeta, <<>>),
     FrameBody(FALSE, MetaOf("User", <<>>, NoneV),
               <<FieldDecl("email", PlainField("IntegerField", EqualsOperator))>>),
     FrameBody(FALSE, MetaOf("User", <<>>, NoneV),
               <<MethodDecl("email", NewMethodField(Str("filter_m"), ""))>>)}

\* the assignments made to a descriptor: (attribute, value)
FieldWrites == {<<"data_source_name", "src">>, <<"lookup_operator", INOperator>>}
NestedWrites == {<<"data_source_name", "src">>, <<"operator", OrOperator>>}

\* how many entries of the maps of the classes hold an assigned value
RECURSIVE Assigned(_, _)
Assigned(cs, d) ==
    IF d > Len(cs) THEN 0
    ELSE Cardinality({j \in 1..Len(cs[d].fields) :
                        \/ cs[d].fields[j].data_source_name = "src"
                        \/ cs[d].fields[j].lookup_operator = INOperator})
         + Cardinality({j \in 1..Len(cs[d].method_fields) :
                        \/ cs[d].method_fields[j].data_source_name = "src"
                        \/ cs[d].method_fields[j].lookup_operator = INOperator})
         + Cardinality({j \in 1..Len(cs[d].nested) :
                        \/ cs[d].nested[j].data_source_name = "src"
                        \/ cs[d].nested[j].operator = OrOperator})
         + Assigned(cs, d + 1)

InitFrame ==
    /\ is14 = FALSE
    /\ ids = RootIds(WithTypedFilter)
    /\ classes = WithTypedFilter
    /\ defOut = NoDef
    /\ inst = NoInstance
    /\ out = NoOut
    /\ fld = NoField
    /\ raw = NoneV
    /\ fdata = EmptyDict
    /\ fres = NoCall
    /\ rows = 0
    /\ pag = NoPaginator
    /\ pres = NoPage

\* the classes and the objects after the class statement that gave registry r
Registered(r, c) ==
    [classes |-> Append(after_definition(classes, ids, c, FilterType_ids(classes, ids, c)), c),
     ids |-> Append(ids, FilterType_ids(classes, ids, c))]

\* class name(base): <body>, the objects of its maps recorded
DefineTracked ==
    /\ Len(classes) - 2 < MaxClasses
    /\ \E base \in ClassNamesOf(classes) \ {"TypedFilter"}, body \in FrameBodies :
        \E r \in {FilterType_new(classes, FrameNames[Len(classes) - 1], base,
                                 [body EXCEPT !.decls = [i \in 1..Len(@) |-> WithD(@[i])]])} :
            /\ \E n \in {IF r.ok THEN Registered(r, r.v[Len(r.v)])
                         ELSE [classes |-> classes, ids |-> ids]} :
                    classes' = n.classes /\ ids' = n.ids
            /\ defOut' = [op |-> "class", res |-> IF r.ok THEN Ok(NoneV) ELSE r,
                          name |-> FrameNames[Len(classes) - 1], base |-> base, body |-> body]
    /\ UNCHANGED <<is14, inst, out, fld, raw, fdata, fres, rows, pag, pres>>

\* cls.<kind>[key].<attr> = value, on a class defined by a class statement
SetAttr ==
    /\ Assigned(classes, 3) < MaxWrites
    /\ \E d \in 3..Len(classes), kind \in MapKinds :
        \E j \in 1..Len(classes[d][kind]) :
            \E w \in (IF kind = "nested" THEN NestedWrites ELSE FieldWrites) :
                /\ classes' = setattr(classes, ids, kind, ids[d][kind][j], w[1], w[2])
                /\ defOut' = [op |-> "setattr", res |-> Ok(NoneV), name |-> classes[d].name,
                              base |-> classes[d].base, body |-> RootBody]
    /\ UNCHANGED <<ids, is14, inst, out, fld, raw, fdata, fres, rows, pag, pres>>

NextFrame == DefineTracked \/ SetAttr

SpecFrame == InitFrame /\ [][NextFrame]_vars

\* whether class a is a proper ancestor of class c
RECURSIVE IsAncestor(_, _, _)
IsAncestor(cs, a, c) ==
    LET b == ClassOf(cs, c).base
    IN  b # "" /\ (b = a \/ IsAncestor(cs, a, b))

\* the three maps of class a: keys, descriptors and their owning classes
MapsOf(cs, a) == [kind \in MapKinds |-> ClassOf(cs, a)[kind]]

\* C24: defining a subclass, or assigning to an attribute of a descriptor held in
\* one of a subclass's maps, never changes the maps of an ancestor or the
\* descriptors in them: keys, attribute values and owning filter class stay.
C24_Step ==
    defOut'.op \in {"class", "setattr"} =>
        \A a \in ClassNamesOf(classes) :
            (a = defOut'.base \/ (defOut'.base # "" /\ IsAncestor(classes, a, defOut'.base))) =>
                MapsOf(classes', a) = MapsOf(classes, a)

C24_AncestorsUntouched == [][C24_Step]_vars

\* F2(F1) inherited email from F1 and the copy in F2's map was assigned to: the
\* two classes now hold different descriptors under the same key
C24_Witness ==
    /\ defOut.op = "setattr" /\ defOut.name = "F2" /\ defOut.base = "F1"
    /\ "email" \in MapKeys(ClassOf(classes, "F1").fields)
    /\ "email" \in MapKeys(ClassOf(classes, "F2").fields)
    /\ MapGet(ClassOf(classes, "F1").fields, "email").cls = "StringField"
    /\ MapGet(ClassOf(classes, "F2").fields, "email").cls = "StringField"
    /\ MapGet(ClassOf(classes, "F1").fields, "email").lookup_operator = ContainsOperator
    /\ MapGet(ClassOf(classes, "F2").fields, "email").lookup_operator = INOperator

\* the join targets of the allow-listed foreign-key fields of class c, then those
\* of the classes of its allow-listed nested filters
RECURSIVE RequiredJoins(_, _)
RequiredJoins(cs, c) ==
    LET fs == SelectSeq(AllowListed(c, c.fields), LAMBDA f : f.is_foreign_key)
        ns == AllowListed(c, c.nested)
        more[i \in 0..Len(ns)] ==
            IF i = 0 THEN <<>>
            ELSE more[i - 1] \o RequiredJoins(cs, ClassOf(cs, ns[i].filter_class))
    IN  [i \in 1..Len(fs) |-> fs[i].join] \o more[Len(ns)]

\* a sequence without its repetitions, first occurrences kept in order
FirstOccurrences(q) ==
    SelectSeq([i \in 1..Len(q) |-> IF \E j \in 1..(i - 1) : q[j] = q[i] THEN NoneV ELSE q[i]],
              LAMBDA e : e # NoneV)

\* C25: apply() joins the query with the join targets of the allow-listed
\* foreign-key fields of the filter and of its allow-listed nested filters, each
\* distinct join once and in first-occurrence order; it fails only when the
\* input does not validate or the ordering names no attribute.
C25_Joins ==
    out.op = "apply" =>
        IF out.res.ok
        THEN /\ pres.query.joins = FirstOccurrences(RequiredJoins(classes, ClassOf(classes, inst.cls)))
             /\ Len(pres.query.filters) = 1
        ELSE out.res.v.s \in {"FilterValidationError", "OrderByException", "ValueError"}

----------------------------------------------------------------------------
(* apply_all() over a filter validated by its typed fields or by a schema *)

NextSchemaApply == Construct({"V"}, ValidateData, ValidateSchemas) \/ ApplyAll

SpecSchemaApply == InitValidate /\ [][NextSchemaApply]_vars

\* whether the input of the live instance holds a value other than None under
\* the data source name of field f
Present(f) ==
    LET value == get_field_value(f, inst.data)
    IN  value # Empty /\ ~is_none(value)

\* C27: after an apply_all() that passed validation, by the typed fields or by
\* an external schema, every allow-listed ordinary field whose data source name
\* is in the input with a value other than None has an entry in validated_data
\* and contributes the predicate of its lookup operator.
C27_ValidatedContributes ==
    (out.op = "apply_all" /\ out.res.ok) =>
        LET c == ClassOf(classes, inst.cls)
            fs == AllowListed(c, c.fields)
        IN  \A i \in 1..Len(fs) :
                Present(fs[i]) =>
                    /\ get_field_value(fs[i], inst.validated_data) # Empty
                    /\ Fragment(fs[i]).t = "op"
                    /\ Fragment(fs[i]).s = sql_operator(fs[i].lookup_operator)

\* C28: in every filter class no name is a key of more than one of the field,
\* nested and method-field maps, also when a subclass redeclares an inherited
\* name with a descriptor of another kind.
C28_OneMapPerName ==
    \A i \in 1..Len(classes) :
        /\ MapKeys(classes[i].fields) \cap MapKeys(classes[i].nested) = {}
        /\ MapKeys(classes[i].fields) \cap MapKeys(classes[i].method_fields) = {}
        /\ MapKeys(classes[i].nested) \cap MapKeys(classes[i].method_fields) = {}

----------------------------------------------------------------------------
(* Walking the pages *)

\* the Paginator the walk started from: the one constructed with the arguments
Start == Paginator_init(0, NewQuery, rows, pres.args[1], pres.args[2])

\* whether a Paginator was constructed on one of its pages
StartsOnAPage == pres.op # "" /\ Start.page \in 1..Start.num_pages

C29_Step ==
    (StartsOnAPage /\ pres.op = "next_page" /\ has_next_page(pres.before)
                   /\ pres'.op = "previous_page") =>
        pag'.page = pres.before.page

\* C29: over an unchanging row count, every Paginator reached by next_page() and
\* previous_page() from a Paginator whose page lies in 1..num_pages has the
\* count, page_size and num_pages of the start and a page in 1..num_pages; and
\* next_page() then previous_page() from a page that has a next page returns to
\* the page number it left.
C29_WalkStaysOnPages ==
    /\ [](StartsOnAPage =>
            /\ pag.count = Start.count
            /\ pag.page_size = Start.page_size
            /\ pag.num_pages = Start.num_pages
            /\ pag.page \in 1..pag.num_pages)
    /\ [][C29_Step]_vars

\* from page 2 of 4 next_page() went to page 3 and previous_page() came back
C29_Witness ==
    /\ pres.op = "previous_page" /\ pres.args = <<<<2>>, <<1>>>> /\ rows = MaxRows
    /\ pres.before.page = 3 /\ pag.page = 2 /\ pag.num_pages = MaxRows
    /\ pag.id # pres.before.id

\* the first Paginator of a walk
StartWalk == pag.page = 0 /\ NewPaginator
\* next_page() on the Paginator the last next_page() returned
WalkNext == pres.op \in {"new", "next_page"} /\ NextPage
\* previous_page() on the Paginator the last previous_page() returned
WalkPrevious == pres.op \in {"new", "previous_page"} /\ PreviousPage

NextWalk == StartWalk \/ WalkNext \/ WalkPrevious

\* a walk goes on calling: the caller repeats the call it began with
SpecWalk ==
    InitPaginator /\ [][NextWalk]_vars /\ WF_vars(WalkNext) /\ WF_vars(WalkPrevious)

\* next_page() has arrived: no next page, and the call returned its receiver
AtLastPage == pres.op = "next_page" /\ ~has_next_page(pag) /\ pres.ret = pres.before
\* previous_page() has arrived
AtFirstPage ==
    pres.op = "previous_page" /\ ~has_previous_page(pag) /\ pres.ret = pres.before

\* C30: from any Paginator, calling next_page() again and again arrives after
\* finitely many calls at a Paginator without a next page that next_page()
\* returns itself, and calling previous_page() again and again at one without a
\* previous page that previous_page() returns itself; it stays there.
C30_WalkEnds ==
    /\ [](pres.op = "next_page" => <>[]AtLastPage)
    /\ [](pres.op = "previous_page" => <>[]AtFirstPage)

\* a walk forward from page -1 over three pages has arrived at page 3
C30_Witness ==
    /\ AtLastPage /\ pres.args = <<<<0 - 1>>, <<1>>>> /\ rows = 3
    /\ pag.page = 3 /\ pag.num_pages = 3

====
